---- MODULE Spec2Model ----
(***************************************************************************)
(* NPC Token Replacer (Foundry VTT module): compendium priority resolution *)
(* and creature name matching.                                             *)
(*                                                                         *)
(* Names are TLA+ strings; a character is a string of length one.  The     *)
(* JavaScript string primitives the code uses (toLowerCase, trim, replace  *)
(* with the three regular expressions, split, startsWith) are written out  *)
(* character by character.                                                 *)
(***************************************************************************)
EXTENDS Integers, Sequences, FiniteSets, TLC

VARIABLES
    nameArg,        \* argument of the first normalizeName call
    normalized,     \* results of the successive normalizeName applications
    gamePacks,      \* game.packs of the host, a sequence of packs
    wotcCompendiumsCache,  \* CompendiumManager.#wotcCompendiumsCache
    packArg,        \* argument of the last getCompendiumPriority call
    priority,       \* what that call returned
    creatureName,   \* findMatch: first argument
    index,          \* findMatch: second argument, the combined index
    match,          \* findMatch: returned item, or NoMatch
    matchStage,     \* findMatch: the return statement that was taken
    stagesRun,      \* findMatch: the filters evaluated on the way
    candidates,     \* findMatch: its local array `matches` at the return
    pc,             \* position of the caller
    tokenDocs,      \* the TokenDocument objects the scene has had, by id
    sceneTokens,    \* canvas.scene.tokens, the ids of the tokens on the scene
    controlled,     \* canvas.tokens.controlled, the ids of the selected tokens
    worldActors,    \* game.actors, as far as the module has imported them
    isProcessing,   \* NPCTokenReplacerController.#isProcessing
    calls,          \* the invocations of replaceNPCTokens with their locals
    enabledCompendiums,  \* the world setting "enabledCompendiums", parsed
    indexCache,     \* CompendiumManager.#indexCache
    loaders,        \* the callers of loadMonsterIndex with their locals
    updateObject,   \* CompendiumSelectorForm._updateObject with its locals
    settingJSON,    \* the world setting "enabledCompendiums" as it is stored
    formData,       \* the last submission of the selection form
    formMode,       \* the mode getData reported last
    enabledResult,  \* what getEnabledCompendiums returned last
    sequentialCounter,   \* TokenReplacer.#sequentialCounter
    tokenVariationMode,  \* the world setting "tokenVariationMode"
    availableVariants,   \* the files the server has for each wildcard path
    resolvedPaths   \* the textures given to the tokens replaced in a session

vars == <<nameArg, normalized, gamePacks, wotcCompendiumsCache, packArg,
          priority, creatureName, index, match, matchStage, stagesRun,
          candidates, pc, tokenDocs, sceneTokens, controlled, worldActors,
          isProcessing, calls, enabledCompendiums, indexCache, loaders,
          updateObject, settingJSON, formData, formMode, enabledResult,
          sequentialCounter, tokenVariationMode, availableVariants,
          resolvedPaths>>

sessionVars == <<tokenDocs, sceneTokens, controlled, worldActors,
                 isProcessing, calls>>

cacheVars == <<enabledCompendiums, indexCache, loaders, updateObject>>

settingsVars == <<settingJSON, formData, formMode, enabledResult>>

variationVars == <<sequentialCounter, tokenVariationMode, availableVariants,
                   resolvedPaths>>

normVars == <<nameArg, normalized>>

packVars == <<gamePacks, wotcCompendiumsCache, packArg, priority>>

matchVars == <<creatureName, index, match, matchStage, stagesRun, candidates>>

-----------------------------------------------------------------------------
(* Bounds of the model *)

\* most files the server has for one wildcard path
MaxVariants == 3

\* most tokens replaced in one session of SpecVariation
MaxReplaced == 4

\* longest string fed to normalizeName in SpecNorm
MaxNameLen == 4

\* longest combined index handed to findMatch in SpecMatch
MaxIndex == 2

\* most packs in game.packs in SpecPacks
MaxPacks == 2

\* most tokens on the scene when a session starts in SpecSession
MaxTokens == 2

\* most invocations of replaceNPCTokens in SpecSession
MaxCalls == 2

-----------------------------------------------------------------------------
(* JavaScript values and string primitives *)

\* the JavaScript null / undefined, kept apart from every string of the model
null == "\\null"

CharsOf(s) == {SubSeq(s, i, i) : i \in 1..Len(s)}

UpperCase == "ABCDEFGHIJKLMNOPQRSTUVWXYZ"

LowerCase == "abcdefghijklmnopqrstuvwxyz"

UpperChars == CharsOf(UpperCase)

\* toLowerCase of one character
LowerOf == [c \in UpperChars |->
               LET i == CHOOSE k \in 1..Len(UpperCase) : SubSeq(UpperCase, k, k) = c
               IN  SubSeq(LowerCase, i, i)]

\* \w of a JavaScript regular expression: [A-Za-z0-9_]
WordChars == UpperChars \cup CharsOf(LowerCase) \cup CharsOf("0123456789_")

\* \s of a JavaScript regular expression, which is also what trim() removes
WhiteSpace == {" ", "\t", "\n", "\r", "\f"}

\* the characters /[^\w\s]/ does not match
WordOrSpace == WordChars \cup WhiteSpace

RECURSIVE toLowerCase(_)
toLowerCase(s) ==
    IF Len(s) = 0 THEN ""
    ELSE LET c == SubSeq(s, 1, 1)
         IN  (IF c \in UpperChars THEN LowerOf[c] ELSE c)
                 \o toLowerCase(SubSeq(s, 2, Len(s)))

RECURSIVE trimStart(_)
trimStart(s) ==
    IF Len(s) > 0 /\ SubSeq(s, 1, 1) \in WhiteSpace
    THEN trimStart(SubSeq(s, 2, Len(s)))
    ELSE s

RECURSIVE trimEnd(_)
trimEnd(s) ==
    IF Len(s) > 0 /\ SubSeq(s, Len(s), Len(s)) \in WhiteSpace
    THEN trimEnd(SubSeq(s, 1, Len(s) - 1))
    ELSE s

trim(s) == trimEnd(trimStart(s))

\* s.replace(/[^\w\s]/g, "")
RECURSIVE removeSpecial(_)
removeSpecial(s) ==
    IF Len(s) = 0 THEN ""
    ELSE LET c == SubSeq(s, 1, 1)
             rest == removeSpecial(SubSeq(s, 2, Len(s)))
         IN  IF c \in WordOrSpace THEN c \o rest ELSE rest

\* s.replace(/\s+/g, " ")
RECURSIVE collapseSpace(_)
collapseSpace(s) ==
    IF Len(s) = 0 THEN ""
    ELSE IF SubSeq(s, 1, 1) \in WhiteSpace
         THEN " " \o collapseSpace(trimStart(s))
         ELSE SubSeq(s, 1, 1) \o collapseSpace(SubSeq(s, 2, Len(s)))

startsWith(s, p) == Len(s) >= Len(p) /\ SubSeq(s, 1, Len(p)) = p

endsWith(s, p) == Len(s) >= Len(p) /\ SubSeq(s, Len(s) - Len(p) + 1, Len(s)) = p

\* s.split(" "): the pieces between the single spaces; `from` is where the
\* piece under way starts and `at` the character looked at
RECURSIVE splitFrom(_, _, _)
splitFrom(s, from, at) ==
    IF at > Len(s) THEN <<SubSeq(s, from, Len(s))>>
    ELSE IF SubSeq(s, at, at) = " "
         THEN <<SubSeq(s, from, at - 1)>> \o splitFrom(s, at + 1, at + 1)
         ELSE splitFrom(s, from, at + 1)

split(s) == splitFrom(s, 1, 1)

-----------------------------------------------------------------------------
(* NameMatcher.normalizeName *)

normalizeName(name) ==
    IF name = null \/ name = "" THEN ""
    ELSE collapseSpace(removeSpecial(trim(toLowerCase(name))))

\* the names of compendium entries in the model
EntryNames ==
    {"Goblin", "Goblin Chief", "Young Goblin", "Hobgoblin", "Rat", "Pirate"}

\* the creature names (token or actor names) looked up in the model
CreatureNames ==
    {"Goblin", "GOBLIN!", "- goblin", "Goblin Warrior", "Goblin Chief",
     "Young Goblin Chief", "Goblin Boss", "Orc War Chief", "Pirate Captain",
     "Rat", "Giant Rat", "", " \t ", "-!", null}

\* the rows of the README's table of name matching examples: the scene
\* token's name and the compendium entry it is matched with
ReadmeExamples ==
    <<<<"Goblin", "Goblin">>, <<"Goblin Warrior", "Goblin">>,
      <<"Young Red Dragon", "Red Dragon">>, <<"Orc War Chief", "Orc">>>>

\* the scene tokens of the examples
ReadmeTokens == {ReadmeExamples[i][1] : i \in 1..Len(ReadmeExamples)}

\* the compendium entries of the examples, and one more that has nothing in
\* common with any of the tokens
ReadmeEntryNames ==
    {ReadmeExamples[i][2] : i \in 1..Len(ReadmeExamples)} \cup {"Rat"}

\* the names of the tokens on the scene of a replacement session
SessionNames == {"Goblin Warrior", "Bandit"}

\* entry names that are null, empty or normalize to the empty string
DefectiveEntryNames == {null, "", "-!", " \t "}

\* the creature names looked up in an index with such entries
DefectiveSearchNames == {"Goblin", "Young -", "Giant Rat", "-!", "", null}

\* normalizeName of the names above, computed once
normalizedNames ==
    LET names == EntryNames \cup CreatureNames \cup ReadmeTokens
                    \cup ReadmeEntryNames \cup SessionNames
                    \cup DefectiveEntryNames \cup DefectiveSearchNames
    IN  [name \in names \cup {normalizeName(n) : n \in names} |->
            normalizeName(name)]

\* normalizeName(name), looked up where it has been computed already
normalizeNameOf(name) ==
    IF name \in DOMAIN normalizedNames THEN normalizedNames[name]
    ELSE normalizeName(name)

-----------------------------------------------------------------------------
(* CompendiumManager: priorities and detection of the official packs *)

\* a compendium pack of game.packs, as far as the module reads it
Pack(packageName, packName, documentName) ==
    [collection   |-> (IF packageName = null THEN "world" ELSE packageName)
                        \o "." \o packName,
     documentName |-> documentName,
     metadata     |-> [packageName |-> packageName]]

WOTC_MODULE_PREFIXES == <<"dnd-", "dnd5e">>

COMPENDIUM_PRIORITIES ==
    [p \in {"dnd5e", "dnd-tashas-cauldron"} |-> 1]
    @@ [p \in {"dnd-monster-manual", "dnd-players-handbook",
               "dnd-dungeon-masters-guide"} |-> 2]
    @@ [p \in {"dnd-forge-artificer"} |-> 3]
    @@ [p \in {"dnd-phandelver-below", "dnd-tomb-annihilation",
               "dnd-adventures-faerun", "dnd-heroes-faerun",
               "dnd-heroes-borderlands"} |-> 4]

\* the property names every object literal inherits from Object.prototype:
\* `name in obj` is true of them as well as of obj's own keys
ObjectPrototypeKeys ==
    {"constructor", "toString", "toLocaleString", "valueOf", "hasOwnProperty",
     "isPrototypeOf", "propertyIsEnumerable", "__proto__",
     "__defineGetter__", "__defineSetter__", "__lookupGetter__",
     "__lookupSetter__"}

\* what obj[name] yields for an inherited name: a function or the prototype
\* object, never a number
InheritedMember == -1

getCompendiumPriority(pack) ==
    LET packageName == IF pack.metadata.packageName = null THEN ""
                       ELSE pack.metadata.packageName
    IN  IF packageName \in DOMAIN COMPENDIUM_PRIORITIES
        THEN COMPENDIUM_PRIORITIES[packageName]
        ELSE IF packageName \in ObjectPrototypeKeys
        THEN InheritedMember
        ELSE IF startsWith(packageName, "dnd-")
        THEN 4
        ELSE 1

\* the filter of detectWOTCCompendiums over game.packs (a sequence)
detectWOTCCompendiums(packs) ==
    SelectSeq(packs, LAMBDA pack :
        /\ pack.documentName = "Actor"
        /\ LET packageName == IF pack.metadata.packageName = null THEN ""
                              ELSE pack.metadata.packageName
           IN  \E i \in 1..Len(WOTC_MODULE_PREFIXES) :
                   startsWith(packageName, WOTC_MODULE_PREFIXES[i]))

\* getEnabledCompendiums() for the detected packs and the parsed value of
\* the setting: an empty array stands for ["default"]
getEnabledCompendiums(allPacks, settingValue) ==
    LET enabledPackIds == IF Len(settingValue) = 0 THEN <<"default">>
                          ELSE settingValue
        listed(id) == \E i \in 1..Len(enabledPackIds) : enabledPackIds[i] = id
    IN  IF listed("all") THEN allPacks
        ELSE IF listed("default")
        THEN SelectSeq(allPacks, LAMBDA pack :
                 /\ getCompendiumPriority(pack) # InheritedMember
                 /\ getCompendiumPriority(pack) <= 2)
        ELSE SelectSeq(allPacks, LAMBDA pack : listed(pack.collection))

\* JSON.stringify of an array of strings none of which needs an escape
RECURSIVE stringifyFrom(_, _)
stringifyFrom(array, i) ==
    IF i > Len(array) THEN ""
    ELSE (IF i > 1 THEN "," ELSE "") \o "\"" \o array[i] \o "\""
             \o stringifyFrom(array, i + 1)

stringify(array) == "[" \o stringifyFrom(array, 1) \o "]"

\* the pieces of s between the occurrences of the separator "\",\""
RECURSIVE splitElements(_, _, _)
splitElements(s, from, at) ==
    IF at + 2 > Len(s) THEN <<SubSeq(s, from, Len(s))>>
    ELSE IF SubSeq(s, at, at + 2) = "\",\""
         THEN <<SubSeq(s, from, at - 1)>> \o splitElements(s, at + 3, at + 3)
         ELSE splitElements(s, from, at + 1)

\* JSON texts that are valid and are not arrays
JSONScalars == {"null", "true", "false", "0", "5", "{}", "\"all\""}

\* what the try block of getEnabledCompendiums and of getData leaves in
\* enabledPackIds for the stored value: a value that is not a string is
\* used as it is, JSON.parse gives an array of strings for the text of one
\* and another value for a scalar, and throws on any other text, and the
\* catch block then assigns ["default"]
enabledPackIdsOf(stored) ==
    IF stored = null THEN [isArray |-> FALSE, value |-> <<>>]
    ELSE IF stored = "[]" THEN [isArray |-> TRUE, value |-> <<>>]
    ELSE IF /\ Len(stored) >= 4
            /\ startsWith(stored, "[\"")
            /\ endsWith(stored, "\"]")
            /\ LET elements == splitElements(SubSeq(stored, 3, Len(stored) - 2),
                                             1, 1)
               IN  \A i \in 1..Len(elements) : ~startsWith(elements[i], "\"")
                                                /\ ~endsWith(elements[i], "\"")
    THEN [isArray |-> TRUE,
          value |-> splitElements(SubSeq(stored, 3, Len(stored) - 2), 1, 1)]
    ELSE IF stored \in JSONScalars THEN [isArray |-> FALSE, value |-> <<>>]
    ELSE [isArray |-> TRUE, value |-> <<"default">>]

\* getEnabledCompendiums() for the detected packs and the stored value
getEnabledCompendiumsOf(allPacks, stored) ==
    LET enabledPackIds == enabledPackIdsOf(stored)
    IN  getEnabledCompendiums(allPacks,
            IF enabledPackIds.isArray THEN enabledPackIds.value ELSE <<>>)

\* CompendiumSelectorForm.getData(): the mode it reports
getDataMode(stored) ==
    LET enabledPackIds == enabledPackIdsOf(stored)
        listed(id) == \E i \in 1..Len(enabledPackIds.value) :
                          enabledPackIds.value[i] = id
    IN  IF \/ ~enabledPackIds.isArray
           \/ Len(enabledPackIds.value) = 0
           \/ listed("default")
        THEN "default"
        ELSE IF listed("all") THEN "all"
        ELSE "custom"

-----------------------------------------------------------------------------
(* NameMatcher *)

MIN_PARTIAL_LENGTH == 4

\* the alternatives of /^(young|adult|ancient|elder|greater|lesser)\s+/i
PREFIX_PATTERN == {"young", "adult", "ancient", "elder", "greater", "lesser"}

\* the alternatives of /\s+(warrior|guard|...|berserker)$/i
SUFFIX_PATTERN == {"warrior", "guard", "scout", "champion", "leader", "chief",
                   "captain", "shaman", "berserker"}

\* the last position of the run of non-whitespace characters that starts at i
RECURSIVE wordEnd(_, _)
wordEnd(s, i) ==
    IF i > Len(s) \/ SubSeq(s, i, i) \in WhiteSpace THEN i - 1
    ELSE wordEnd(s, i + 1)

\* the first position of the run of non-whitespace characters that ends at i
RECURSIVE wordStart(_, _)
wordStart(s, i) ==
    IF i < 1 \/ SubSeq(s, i, i) \in WhiteSpace THEN i + 1
    ELSE wordStart(s, i - 1)

\* name.replace(NameMatcher.PREFIX_PATTERN, ""): the pattern matches when the
\* characters up to the first whitespace are one of its words (in any case)
\* and whitespace follows; the word and the whole run of whitespace go
replacePrefix(name) ==
    LET e == wordEnd(name, 1)
    IN  IF /\ e < Len(name)
           /\ toLowerCase(SubSeq(name, 1, e)) \in PREFIX_PATTERN
        THEN trimStart(SubSeq(name, e + 1, Len(name)))
        ELSE name

\* name.replace(NameMatcher.SUFFIX_PATTERN, ""): the pattern matches when the
\* characters after the last whitespace are one of its words (in any case)
\* and whitespace precedes; the word and the whole run of whitespace go
replaceSuffix(name) ==
    LET b == wordStart(name, Len(name))
    IN  IF /\ b > 1
           /\ toLowerCase(SubSeq(name, b, Len(name))) \in SUFFIX_PATTERN
        THEN trimEnd(SubSeq(name, 1, b - 1))
        ELSE name

\* the array literal with its first two transforms exchanged
variantTransformsSuffixFirst(k, name) ==
    CASE k = 1 -> replaceSuffix(name)
      [] k = 2 -> replacePrefix(name)
      [] k = 3 -> replaceSuffix(replacePrefix(name))

\* variantTransforms[k](name), k = 1..3 in the order of the array literal
variantTransforms(k, name) ==
    CASE k = 1 -> replacePrefix(name)
      [] k = 2 -> replaceSuffix(name)
      [] k = 3 -> replaceSuffix(replacePrefix(name))

\* the name of the stage that variantTransforms[k] stands for
variantStage(k) == <<"prefix", "suffix", "both">>[k]

\* no pack and no match: the null that findMatch and selectBestMatch return
NoPack == [collection |-> null, documentName |-> null,
           metadata |-> [packageName |-> null]]

NoMatch == [entry |-> [_id |-> 0, name |-> null], pack |-> NoPack]

\* the comparator handed to matches.sort: b's priority minus a's (a NaN
\* difference counts as 0)
comparePriority(a, b) ==
    LET pa == getCompendiumPriority(a.pack)
        pb == getCompendiumPriority(b.pack)
    IN  IF pa = InheritedMember \/ pb = InheritedMember THEN 0 ELSE pb - pa

\* an insertion that also goes in front of the elements of equal priority:
\* the sort it gives is not stable
insertSortedBeforeEqual(sorted, x) ==
    LET later == {i \in 1..Len(sorted) : comparePriority(sorted[i], x) >= 0}
        at == IF later = {} THEN Len(sorted) + 1
              ELSE CHOOSE i \in later : \A j \in later : i <= j
    IN  SubSeq(sorted, 1, at - 1) \o <<x>> \o SubSeq(sorted, at, Len(sorted))

\* x put into an already sorted sequence, behind every element that does not
\* have to come after it
insertSorted(sorted, x) ==
    LET later == {i \in 1..Len(sorted) : comparePriority(sorted[i], x) > 0}
        at == IF later = {} THEN Len(sorted) + 1
              ELSE CHOOSE i \in later : \A j \in later : i <= j
    IN  SubSeq(sorted, 1, at - 1) \o <<x>> \o SubSeq(sorted, at, Len(sorted))

\* Array.prototype.sort with comparePriority: a stable sort (ECMAScript 2019)
RECURSIVE sortByPriority(_)
sortByPriority(matches) ==
    IF Len(matches) = 0 THEN <<>>
    ELSE insertSorted(sortByPriority(SubSeq(matches, 1, Len(matches) - 1)),
                      matches[Len(matches)])

\* the array `matches` as selectBestMatch leaves it: sorted in place when it
\* holds more than one item
matchesAfterSelect(matches) ==
    IF Len(matches) <= 1 THEN matches ELSE sortByPriority(matches)

\* a selectBestMatch that forgets to sort: the first candidate found
selectBestMatchUnsorted(matches) ==
    IF Len(matches) = 0 THEN NoMatch ELSE matches[1]

selectBestMatch(matches) ==
    IF Len(matches) = 0 THEN NoMatch
    ELSE IF Len(matches) = 1 THEN matches[1]
    ELSE sortByPriority(matches)[1]

\* a Stage 1 filter that compares the entry's name as it is written
stage1MatchesRawName(idx, normalizedSearch) ==
    SelectSeq(idx, LAMBDA item : item.entry.name = normalizedSearch)

\* index.filter(item => normalizeName(item.entry.name) === normalizedSearch),
\* the filter of Stage 1
stage1Matches(idx, normalizedSearch) ==
    SelectSeq(idx, LAMBDA item :
        normalizeNameOf(item.entry.name) = normalizedSearch)

\* index.filter(item => normalizeName(item.entry.name) === variant), the
\* filter of Stage 2
stage2Matches(idx, variant) ==
    SelectSeq(idx, LAMBDA item : normalizeNameOf(item.entry.name) = variant)

\* a guard that tests for null only, which normalizeName never returns
searchIsEmptyNullOnly(normalizedSearch) == normalizedSearch = null

\* if (!normalizedSearch): the empty string is the only falsy string
searchIsEmpty(normalizedSearch) == normalizedSearch = ""

\* a Stage 3 without its guard
stage3AttemptedAlways(normalizedSearch) == TRUE

\* the guard of Stage 3
stage3Attempted(normalizedSearch) ==
    Len(normalizedSearch) >= MIN_PARTIAL_LENGTH

\* the words array.includes compares: an element equal to sw
includes(words, sw) == \E i \in 1..Len(words) : words[i] = sw

\* sub occurs somewhere in s: String.prototype.includes
contains(s, sub) ==
    \E i \in 1..(Len(s) - Len(sub) + 1) : SubSeq(s, i, i + Len(sub) - 1) = sub

\* a Stage 3 filter that looks for the words inside the other name
stage3MatchesSubstring(idx, normalizedSearch) ==
    LET searchWords == split(normalizedSearch) IN
    SelectSeq(idx, LAMBDA item :
        LET entryName == normalizeNameOf(item.entry.name)
            entryWords == split(entryName)
        IN  /\ ~(Len(entryName) < MIN_PARTIAL_LENGTH)
            /\ \/ \E i \in 1..Len(searchWords) :
                      /\ contains(entryName, searchWords[i])
                      /\ Len(searchWords[i]) >= MIN_PARTIAL_LENGTH
               \/ \E i \in 1..Len(entryWords) :
                      /\ contains(normalizedSearch, entryWords[i])
                      /\ Len(entryWords[i]) >= MIN_PARTIAL_LENGTH)

\* a Stage 3 filter that only looks for the input's words inside the entry's
\* name
stage3MatchesSearchWordsOnly(idx, normalizedSearch) ==
    LET searchWords == split(normalizedSearch) IN
    SelectSeq(idx, LAMBDA item :
        LET entryName == normalizeNameOf(item.entry.name)
        IN  /\ ~(Len(entryName) < MIN_PARTIAL_LENGTH)
            /\ \E i \in 1..Len(searchWords) :
                   /\ contains(entryName, searchWords[i])
                   /\ Len(searchWords[i]) >= MIN_PARTIAL_LENGTH)

\* the filter of Stage 3
stage3Matches(idx, normalizedSearch) ==
    LET searchWords == split(normalizedSearch) IN
    SelectSeq(idx, LAMBDA item :
        LET entryName == normalizeNameOf(item.entry.name)
            entryWords == split(entryName)
        IN  /\ ~(Len(entryName) < MIN_PARTIAL_LENGTH)
            /\ \/ \E i \in 1..Len(searchWords) :
                      /\ includes(entryWords, searchWords[i])
                      /\ Len(searchWords[i]) >= MIN_PARTIAL_LENGTH
               \/ \E i \in 1..Len(entryWords) :
                      /\ includes(searchWords, entryWords[i])
                      /\ Len(entryWords[i]) >= MIN_PARTIAL_LENGTH)

\* a guard that lets a stage return with no candidate at all
hasMatchesAlways(matches) == TRUE

\* if (matches.length > 0): the guard in front of each stage's return
hasMatches(matches) == Len(matches) > 0

\* a findMatch that sorts the array it was handed
indexSortedInPlace(idx) == sortByPriority(idx)

\* the caller's array after index.filter(...): filter builds a new array and
\* leaves the one it is called on as it was, and it is the new array that
\* selectBestMatch sorts
indexAfterFilter(idx) == idx

\* the return of a stage: selectBestMatch(matches), then a Logger line that
\* reads match.entry.name, which is a TypeError when the match is null
\* a Stage 2 guard that does not test the variant's length
variantIsCheckedWhenEmpty(variant, normalizedSearch) ==
    variant # normalizedSearch

\* if (variant !== normalizedSearch && variant.length > 0)
variantIsChecked(variant, normalizedSearch) ==
    variant # normalizedSearch /\ Len(variant) > 0

stageReturn(idx, matches, stage, run) ==
    LET best == selectBestMatch(matches)
    IN  IF best = NoMatch
        THEN [match |-> NoMatch, stage |-> "threw", stagesRun |-> run,
              matches |-> matches, index |-> indexAfterFilter(idx)]
        ELSE [match |-> best, stage |-> stage, stagesRun |-> run,
              matches |-> matchesAfterSelect(matches),
              index |-> indexAfterFilter(idx)]

\* findMatch(creatureName, index): the returned item (match), the return
\* statement taken (stage, "threw" for an exception), the filters evaluated
\* on the way (stagesRun), the local array `matches` at the return and the
\* caller's array after the call (index)
findMatch(name, idx) ==
    LET normalizedSearch == normalizeNameOf(name)
        exact == stage1Matches(idx, normalizedSearch)
        variant == [k \in 1..3 |-> variantTransforms(k, normalizedSearch)]
        \* the variants Stage 2 looks up: different from the input, not empty
        checked == {k \in 1..3 : variantIsChecked(variant[k], normalizedSearch)}
        found == {k \in checked : hasMatches(stage2Matches(idx, variant[k]))}
        first == CHOOSE k \in found : \A j \in found : k <= j
        looked(upto) == {variantStage(k) : k \in {j \in checked : j <= upto}}
        partial == stage3Matches(idx, normalizedSearch)
    IN  IF searchIsEmpty(normalizedSearch)
        THEN [match |-> NoMatch, stage |-> "empty", stagesRun |-> {},
              matches |-> <<>>, index |-> idx]
        ELSE IF hasMatches(exact)
        THEN stageReturn(idx, exact, "exact", {"exact"})
        ELSE IF found # {}
        THEN stageReturn(idx, stage2Matches(idx, variant[first]),
                         variantStage(first), {"exact"} \cup looked(first))
        ELSE IF stage3Attempted(normalizedSearch) /\ hasMatches(partial)
        THEN stageReturn(idx, partial, "partial",
                         {"exact", "partial"} \cup looked(3))
        ELSE [match |-> NoMatch, stage |-> "none",
              stagesRun |-> {"exact"} \cup looked(3) \cup
                   (IF stage3Attempted(normalizedSearch)
                    THEN {"partial"} ELSE {}),
              matches |-> <<>>, index |-> indexAfterFilter(idx)]

-----------------------------------------------------------------------------
(* WildcardResolver *)

\* the path no selection was made for: path: null
NoPath == [src |-> null, variant |-> 0]

\* the file of this number among the files of a wildcard path
VariantPath(wildcardPath, i) == [src |-> wildcardPath, variant |-> i]

\* selectVariant(variants, mode, sequentialIndex), with the number that
\* Math.floor(Math.random() * variants.length) gives in random mode
selectVariant(variants, mode, sequentialIndex, randomIndex) ==
    IF Len(variants) = 0
    THEN [path |-> NoPath, nextIndex |-> sequentialIndex]
    ELSE IF mode = "none"
    THEN [path |-> variants[1], nextIndex |-> 0]
    ELSE IF mode = "random"
    THEN [path |-> variants[randomIndex + 1], nextIndex |-> 0]
    ELSE [path |-> variants[(sequentialIndex % Len(variants)) + 1],
          nextIndex |-> sequentialIndex + 1]

\* resolve(wildcardPath, mode, sequentialIndex, fallbackPath) for the
\* variants resolveWildcardVariants found and a fallback without wildcard
resolve(variants, mode, sequentialIndex, fallbackPath, randomIndex) ==
    IF Len(variants) > 0
    THEN LET selection == selectVariant(variants, mode, sequentialIndex,
                                        randomIndex)
         IN  [resolvedPath |-> selection.path,
              nextIndex |-> selection.nextIndex]
    ELSE [resolvedPath |-> fallbackPath, nextIndex |-> sequentialIndex]

\* #resolveWildcardTexture: the counter after the call
counterAfterResolve(variationMode, currentIndex, result) ==
    IF variationMode = "sequential" /\ result.nextIndex > currentIndex
    THEN result.nextIndex
    ELSE currentIndex

-----------------------------------------------------------------------------
(* TokenReplacer *)

PRESERVED_PROPERTIES ==
    {"x", "y", "elevation", "width", "height",
     "hidden", "rotation", "disposition", "locked", "alpha"}

extractTokenProperties(tokenDoc) ==
    [x           |-> tokenDoc.x,
     y           |-> tokenDoc.y,
     elevation   |-> tokenDoc.elevation,
     width       |-> tokenDoc.width,
     height      |-> tokenDoc.height,
     hidden      |-> tokenDoc.hidden,
     rotation    |-> tokenDoc.rotation,
     disposition |-> tokenDoc.disposition,
     locked      |-> tokenDoc.locked,
     alpha       |-> tokenDoc.alpha]

\* an object literal that spreads the prototype token after the preserved
\* properties, so that the prototype's values win
prepareNewTokenDataSpreadLast(prototypeToken, originalProps, worldActorId) ==
    prototypeToken @@
    [x           |-> originalProps.x,
     y           |-> originalProps.y,
     elevation   |-> originalProps.elevation,
     width       |-> originalProps.width,
     height      |-> originalProps.height,
     hidden      |-> originalProps.hidden,
     rotation    |-> originalProps.rotation,
     disposition |-> originalProps.disposition,
     locked      |-> originalProps.locked,
     alpha       |-> originalProps.alpha,
     actorId     |-> worldActorId,
     actorLink   |-> FALSE]

\* { ...prototypeToken, x: originalProps.x, ..., actorLink: false }: the
\* properties written after the spread replace the prototype's
prepareNewTokenData(prototypeToken, originalProps, worldActorId) ==
    [x           |-> originalProps.x,
     y           |-> originalProps.y,
     elevation   |-> originalProps.elevation,
     width       |-> originalProps.width,
     height      |-> originalProps.height,
     hidden      |-> originalProps.hidden,
     rotation    |-> originalProps.rotation,
     disposition |-> originalProps.disposition,
     locked      |-> originalProps.locked,
     alpha       |-> originalProps.alpha,
     actorId     |-> worldActorId,
     actorLink   |-> FALSE]
    @@ prototypeToken

\* tokenDoc.actor?.name || tokenDoc.name
creatureNameOf(tokenDoc) ==
    IF tokenDoc.actorName # null /\ tokenDoc.actorName # ""
    THEN tokenDoc.actorName
    ELSE tokenDoc.name

\* the filter of getNPCTokensToProcess: the token has an actor of type "npc"
isNPC(tokenDoc) == tokenDoc.actorType = "npc"

\* the elements of a set of ids as an array, in ascending order
RECURSIVE ascending(_)
ascending(ids) ==
    IF ids = {} THEN <<>>
    ELSE LET least == CHOOSE i \in ids : \A j \in ids : i <= j
         IN  <<least>> \o ascending(ids \ {least})

\* getNPCTokensToProcess() on a canvas with a scene: docs are the token
\* documents, scene is canvas.scene.tokens and selectedTokens is
\* canvas.tokens.controlled
getNPCTokensToProcess(docs, scene, selectedTokens) ==
    LET selectedNPCs == {t \in selectedTokens : isNPC(docs[t])}
    IN  IF selectedTokens # {} /\ selectedNPCs # {}
        THEN [tokens |-> ascending(selectedNPCs), isSelection |-> TRUE]
        ELSE [tokens |-> ascending({t \in scene : isNPC(docs[t])}),
              isSelection |-> FALSE]

\* compendiumActor.uuid for an entry of a pack
uuidOf(item) == <<item.pack.collection, item.entry._id>>

\* a source that is not set: _stats.compendiumSource or flags.core.sourceId
\* undefined
NoUuid == <<null, 0>>

\* a world actor: its name, _stats.compendiumSource and flags.core.sourceId
WorldActor(id, name, compendiumSource, sourceId) ==
    [id |-> id, name |-> name, compendiumSource |-> compendiumSource,
     sourceId |-> sourceId]

\* a lookup that finds no world actor, so that every token is imported
importedActorsNone(actors, item) == {}

\* game.actors.find(...) of #getOrImportWorldActor: the positions of the
\* world actors of the compendium actor's name and source
importedActors(actors, item) ==
    {i \in 1..Len(actors) :
        /\ actors[i].name = item.entry.name
        /\ \/ actors[i].compendiumSource = uuidOf(item)
           \/ /\ actors[i].compendiumSource = NoUuid
              /\ actors[i].sourceId = uuidOf(item)}

\* game.actors after #getOrImportWorldActor: an actor imported before is
\* used again, otherwise the import adds one
actorsAfterImport(actors, item) ==
    IF importedActors(actors, item) # {} THEN actors
    ELSE Append(actors, WorldActor(Len(actors) + 1, item.entry.name,
                                   uuidOf(item), NoUuid))

\* the id of the world actor #getOrImportWorldActor returns
worldActorIdOf(actors, item) ==
    LET found == importedActors(actors, item)
    IN  IF found # {} THEN actors[CHOOSE i \in found : \A j \in found : i <= j].id
        ELSE Len(actors) + 1

\* compendiumActor.prototypeToken.toObject() of the actor of an entry
prototypeTokenOf(entry) ==
    [name        |-> entry.name,
     texture     |-> "tokens/compendium.webp",
     x           |-> 50,
     y           |-> 50,
     elevation   |-> 5,
     width       |-> 3,
     height      |-> 3,
     hidden      |-> TRUE,
     rotation    |-> 45,
     disposition |-> -1,
     locked      |-> TRUE,
     alpha       |-> 1,
     actorLink   |-> TRUE]

-----------------------------------------------------------------------------
(* States in which a component has not been called *)

NormIdle ==
    /\ nameArg = null
    /\ normalized = <<>>

PacksIdle ==
    /\ wotcCompendiumsCache = <<>>
    /\ packArg = NoPack
    /\ priority = 0

MatchIdle ==
    /\ creatureName = null
    /\ match = NoMatch
    /\ matchStage = "idle"
    /\ stagesRun = {}
    /\ candidates = <<>>

SessionIdle ==
    /\ tokenDocs = <<>>
    /\ sceneTokens = {}
    /\ controlled = {}
    /\ worldActors = <<>>
    /\ isProcessing = FALSE
    /\ calls = <<>>

\* the setting has its registered default and nothing has been loaded
CacheIdle ==
    /\ enabledCompendiums = <<"default">>
    /\ indexCache = <<>>
    /\ loaders = <<>>
    /\ updateObject = <<>>

\* the setting is stored with its registered default, the form is closed
SettingsIdle ==
    /\ settingJSON = "[\"default\"]"
    /\ formData = [mode |-> "default", checked |-> {}]
    /\ formMode = ""
    /\ enabledResult = <<>>

\* no token has been replaced: the counter has its static initial value
\* and the setting its registered default
VariationIdle ==
    /\ sequentialCounter = 0
    /\ tokenVariationMode = "sequential"
    /\ availableVariants = <<>>
    /\ resolvedPaths = <<>>

-----------------------------------------------------------------------------
(* Specification SpecNorm: normalizeName applied to every short string *)

NormAlphabet == {"a", "B", "-", " ", "\t"}

RECURSIVE Strings(_)
Strings(n) ==
    IF n = 0 THEN {""}
    ELSE LET S == Strings(n - 1) IN S \cup {s \o c : s \in S, c \in NormAlphabet}

InitNorm ==
    /\ nameArg \in Strings(MaxNameLen) \cup {null}
    /\ normalized = <<>>
    /\ gamePacks = <<>>
    /\ PacksIdle
    /\ index = <<>>
    /\ MatchIdle
    /\ SessionIdle
    /\ CacheIdle
    /\ SettingsIdle
    /\ VariationIdle
    /\ pc = "norm"

\* one call of normalizeName: on the argument first, then on its own result
NormalizeName ==
    /\ pc = "norm"
    /\ Len(normalized) < 2
    /\ normalized' = Append(normalized,
                            normalizeName(IF normalized = <<>> THEN nameArg
                                          ELSE normalized[Len(normalized)]))
    /\ UNCHANGED <<nameArg, packVars, matchVars, pc, sessionVars, cacheVars,
                   settingsVars, variationVars>>

NextNorm == NormalizeName

SpecNorm == InitNorm /\ [][NextNorm]_vars

-----------------------------------------------------------------------------
(* Specification SpecPacks: priorities and detection over game.packs *)

PackageNames ==
    DOMAIN COMPENDIUM_PRIORITIES \cup
    {"dnd-new-adventure", "dnd-monster-manual-2", "dnd5e-animations", "dnd",
     "Dnd-Monster-Manual", "my-dnd-module", "world", "pf2e", "", null,
     "constructor", "toString"}

PackUniverse ==
    {Pack(p, "actors", "Actor") : p \in PackageNames}
    \cup {Pack("dnd-monster-manual", "items", "Item"),
          Pack("dnd-players-handbook", "spells", "Item")}

\* the sequences of at most n different elements of S
RECURSIVE Arrangements(_, _)
Arrangements(S, n) ==
    IF n = 0 THEN {<<>>}
    ELSE LET A == Arrangements(S, n - 1)
         IN  A \cup {Append(a, x) : a \in {b \in A : Len(b) = n - 1}, x \in S}

Distinct(seq) == \A i, j \in 1..Len(seq) : i # j => seq[i] # seq[j]

InitPacks ==
    /\ gamePacks \in {a \in Arrangements(PackUniverse, MaxPacks) : Distinct(a)}
    /\ PacksIdle
    /\ NormIdle
    /\ index = <<>>
    /\ MatchIdle
    /\ SessionIdle
    /\ CacheIdle
    /\ SettingsIdle
    /\ VariationIdle
    /\ pc = "packs"

\* CompendiumManager.getCompendiumPriority(pack), for a pack of game.packs
GetCompendiumPriority ==
    /\ pc = "packs"
    /\ \E i \in 1..Len(gamePacks) :
           /\ packArg' = gamePacks[i]
           /\ priority' = getCompendiumPriority(gamePacks[i])
    /\ UNCHANGED <<gamePacks, wotcCompendiumsCache, normVars, matchVars, pc,
                   sessionVars, cacheVars, settingsVars, variationVars>>

\* CompendiumManager.detectWOTCCompendiums(): the cache is <<>> while null
\* and holds the detected packs afterwards
DetectWOTCCompendiums ==
    /\ pc = "packs"
    /\ wotcCompendiumsCache' =
           IF wotcCompendiumsCache # <<>> THEN wotcCompendiumsCache
           ELSE <<detectWOTCCompendiums(gamePacks)>>
    /\ UNCHANGED <<gamePacks, packArg, priority, normVars, matchVars, pc,
                   sessionVars, cacheVars, settingsVars, variationVars>>

NextPacks ==
    \/ GetCompendiumPriority
    \/ DetectWOTCCompendiums

SpecPacks == InitPacks /\ [][NextPacks]_vars

-----------------------------------------------------------------------------
(* Specification SpecMatch: findMatch on every small index *)

\* game.packs of the world in which findMatch is exercised
MatchGamePacks ==
    <<Pack("dnd-monster-manual", "actors", "Actor"),
      Pack("dnd-phandelver-below", "actors", "Actor"),
      Pack("dnd-new-adventure", "actors", "Actor"),
      Pack("world", "homebrew", "Actor"),
      Pack("dnd-monster-manual", "items", "Item")>>

\* the packs an index entry can come from: the detected official packs
IndexPacks ==
    LET detected == detectWOTCCompendiums(MatchGamePacks)
    IN  {detected[i] : i \in 1..Len(detected)}

\* the index entry at position i of a combined index: the entries of an
\* index are different documents, told apart by their _id
IndexItem(i, name, pack) == [entry |-> [_id |-> i, name |-> name], pack |-> pack]

\* the indexes of at most n entries whose names are taken from `names`
IndexesOf(names, n) ==
    UNION {{[i \in 1..k |-> IndexItem(i, f[i][1], f[i][2])] :
               f \in [1..k -> names \X IndexPacks]} : k \in 0..n}

Indexes(n) == IndexesOf(EntryNames, n)

InitMatch ==
    /\ index \in Indexes(MaxIndex)
    /\ MatchIdle
    /\ gamePacks = MatchGamePacks
    /\ PacksIdle
    /\ NormIdle
    /\ SessionIdle
    /\ CacheIdle
    /\ SettingsIdle
    /\ VariationIdle
    /\ pc = "idle"

\* NameMatcher.findMatch(creatureName, index), a synchronous call, for a
\* creature name among `names`
FindMatchAmong(names) ==
    /\ pc = "idle"
    /\ \E name \in names :
           LET r == findMatch(name, index)
           IN  /\ creatureName' = name
               /\ match' = r.match
               /\ matchStage' = r.stage
               /\ stagesRun' = r.stagesRun
               /\ candidates' = r.matches
               /\ index' = r.index
    /\ pc' = "matched"
    /\ UNCHANGED <<packVars, normVars, sessionVars, cacheVars, settingsVars,
                   variationVars>>

FindMatch == FindMatchAmong(CreatureNames)

\* the caller drops the result and is ready for the next call
Return ==
    /\ pc = "matched"
    /\ creatureName' = null
    /\ match' = NoMatch
    /\ matchStage' = "idle"
    /\ stagesRun' = {}
    /\ candidates' = <<>>
    /\ pc' = "idle"
    /\ UNCHANGED <<index, packVars, normVars, sessionVars, cacheVars, settingsVars,
                   variationVars>>

NextMatch ==
    \/ FindMatch
    \/ Return

SpecMatch == InitMatch /\ [][NextMatch]_vars

-----------------------------------------------------------------------------
(* Specification SpecReadme: findMatch on the README's examples *)

InitReadme ==
    /\ index \in IndexesOf(ReadmeEntryNames, MaxIndex)
    /\ MatchIdle
    /\ gamePacks = MatchGamePacks
    /\ PacksIdle
    /\ NormIdle
    /\ SessionIdle
    /\ CacheIdle
    /\ SettingsIdle
    /\ VariationIdle
    /\ pc = "idle"

\* findMatch called with the name of one of the README's scene tokens
FindExample == FindMatchAmong(ReadmeTokens)

NextReadme ==
    \/ FindExample
    \/ Return

SpecReadme == InitReadme /\ [][NextReadme]_vars

-----------------------------------------------------------------------------
(* Specification SpecDefective: findMatch on indexes that hold entries      *)
(* whose name is null, empty or only punctuation or white space             *)

InitDefective ==
    /\ index \in IndexesOf(DefectiveEntryNames \cup {"Goblin", "Rat"}, MaxIndex)
    /\ MatchIdle
    /\ gamePacks = MatchGamePacks
    /\ PacksIdle
    /\ NormIdle
    /\ SessionIdle
    /\ CacheIdle
    /\ SettingsIdle
    /\ VariationIdle
    /\ pc = "idle"

\* findMatch called for a token on such an index
FindDefective == FindMatchAmong(DefectiveSearchNames)

NextDefective ==
    \/ FindDefective
    \/ Return

SpecDefective == InitDefective /\ [][NextDefective]_vars

-----------------------------------------------------------------------------
(* Specification SpecSession: invocations of replaceNPCTokens on a scene.   *)
(* The user is a GM, a scene is open and the official packs are installed,  *)
(* so that validatePrerequisites lets every invocation through.  An action  *)
(* is the code between two awaits.                                          *)

\* the combined index loadMonsterIndex returns in this world: "Goblin" of an
\* adventure (priority 4) in front of "Goblin" of the Monster Manual
SessionIndex ==
    <<IndexItem(1, "Goblin", Pack("dnd-phandelver-below", "actors", "Actor")),
      IndexItem(2, "Goblin", Pack("dnd-monster-manual", "actors", "Actor"))>>

\* the preserved properties of the token with this id as the scene has it
\* when the session starts: token 1 has the values JavaScript takes for false
TokenPropsOf(id) ==
    IF id = 1
    THEN [x |-> 0, y |-> 0, elevation |-> 0, width |-> 1, height |-> 1,
          hidden |-> FALSE, rotation |-> 0, disposition |-> 0,
          locked |-> FALSE, alpha |-> 0]
    ELSE [x |-> 100 * id, y |-> 100 * id + 10, elevation |-> 10 * id,
          width |-> 2, height |-> 2, hidden |-> (id % 2 = 0),
          rotation |-> 90, disposition |-> 1, locked |-> (id % 2 = 1),
          alpha |-> 1]

\* the actors the tokens of the scene stand for, by name and type: an NPC
\* the index has a match for, an NPC it has none for, a player character
SceneActors ==
    {<<"Goblin Warrior", "npc">>, <<"Bandit", "npc">>,
     <<"Goblin Warrior", "character">>}

\* a token of the scene: its actor is an NPC or a player character
SceneToken(id, name, actorType) ==
    TokenPropsOf(id) @@
    [id |-> id, name |-> name, actorType |-> actorType, actorName |-> name,
     texture |-> "tokens/homebrew.webp", actorId |-> 0, actorLink |-> FALSE]

\* the TokenDocument that createEmbeddedDocuments makes of newTokenData: its
\* actor is the world actor the data names
CreatedToken(id, newTokenData, actorName) ==
    newTokenData @@
    [id |-> id, actorType |-> "npc", actorName |-> actorName]

\* no token data: the local newTokenData before it is assigned
NoTokenData == [actorId |-> 0]

\* the locals of an invocation that has not been made yet
NotInvoked ==
    [pc             |-> "idle",
     selectedTokens |-> {},
     npcTokens      |-> <<>>,
     isSelection    |-> FALSE,
     pos            |-> 0,
     processedIds   |-> {},
     replaced       |-> 0,
     notFound       |-> <<>>,
     errors         |-> <<>>,
     tokenDoc       |-> 0,
     match          |-> NoMatch,
     newTokenData   |-> NoTokenData,
     results        |-> <<>>,
     requests       |-> <<>>]

\* the positions of an invocation between setting and releasing the lock
Processing == {"loop", "import", "delete", "create"}

\* game.actors when the session starts: empty, a Goblin imported by an
\* older version of the host (flags.core.sourceId only), or a Goblin whose
\* compendium source is the Monster Manual's entry
WorldActorsBefore ==
    {<<>>,
     <<WorldActor(1, "Goblin", NoUuid, uuidOf(SessionIndex[1]))>>,
     <<WorldActor(1, "Goblin", uuidOf(SessionIndex[2]),
                  uuidOf(SessionIndex[1]))>>}

InitSession ==
    /\ \E n \in 0..MaxTokens :
           /\ tokenDocs \in {[id \in 1..n |-> SceneToken(id, f[id][1], f[id][2])] :
                                f \in [1..n -> SceneActors]}
           /\ sceneTokens = 1..n
           /\ controlled \in SUBSET (1..n)
    /\ worldActors \in WorldActorsBefore
    /\ isProcessing = FALSE
    /\ calls = [c \in 1..MaxCalls |-> NotInvoked]
    /\ index = SessionIndex
    /\ MatchIdle
    /\ gamePacks = MatchGamePacks
    /\ PacksIdle
    /\ NormIdle
    /\ CacheIdle
    /\ SettingsIdle
    /\ VariationIdle
    /\ pc = "session"

\* replaceNPCTokens() is called (a click on the toolbar button or a console
\* call): the lock is tested, the prerequisites hold, and the invocation
\* waits for loadMonsterIndex
Invoke(c) ==
    /\ pc = "session"
    /\ calls[c].pc = "idle"
    /\ \A b \in 1..(c - 1) : calls[b].pc # "idle"
    /\ calls' = [calls EXCEPT ![c].pc =
                     IF isProcessing THEN "ignored" ELSE "loadIndex"]
    /\ UNCHANGED <<tokenDocs, sceneTokens, controlled, worldActors,
                   isProcessing, normVars, packVars, matchVars, pc, cacheVars,
                   settingsVars, variationVars>>

\* replaceNPCTokens() is called when a prerequisite fails: the user is no
\* GM, no scene is open, no official pack is installed or none is enabled
Reject(c) ==
    /\ pc = "session"
    /\ calls[c].pc = "idle"
    /\ \A b \in 1..(c - 1) : calls[b].pc # "idle"
    /\ calls' = [calls EXCEPT ![c].pc =
                     IF isProcessing THEN "ignored" ELSE "rejected"]
    /\ UNCHANGED <<tokenDocs, sceneTokens, controlled, worldActors,
                   isProcessing, normVars, packVars, matchVars, pc, cacheVars,
                   settingsVars, variationVars>>

\* loadMonsterIndex has returned: the tokens to process are taken from the
\* canvas and the confirmation dialog is shown, or the invocation ends
\* because there is no NPC token
IndexLoaded(c) ==
    /\ pc = "session"
    /\ calls[c].pc = "loadIndex"
    /\ LET got == getNPCTokensToProcess(tokenDocs, sceneTokens, controlled)
       IN  calls' = [calls EXCEPT ![c] =
               [@ EXCEPT !.pc = IF Len(index) = 0 \/ Len(got.tokens) = 0
                                THEN "nothing" ELSE "confirm",
                         !.selectedTokens = IF Len(index) = 0 THEN {}
                                            ELSE controlled,
                         !.npcTokens = IF Len(index) = 0 THEN <<>>
                                       ELSE got.tokens,
                         !.isSelection = Len(index) # 0 /\ got.isSelection]]
    /\ UNCHANGED <<tokenDocs, sceneTokens, controlled, worldActors,
                   isProcessing, normVars, packVars, matchVars, pc, cacheVars,
                   settingsVars, variationVars>>

\* the user answers the dialog with "Replace Tokens": the lock is set, the
\* counters of the session start and the progress notification is shown;
\* if the host raises an error there, the invocation ends with it before
\* it has entered the try block
Confirm(c) ==
    /\ pc = "session"
    /\ calls[c].pc = "confirm"
    /\ isProcessing' = TRUE
    /\ \E notified \in BOOLEAN :
           calls' = [calls EXCEPT ![c] =
                        IF notified THEN [@ EXCEPT !.pc = "loop", !.pos = 1]
                        ELSE [@ EXCEPT !.pc = "threw"]]
    /\ UNCHANGED <<tokenDocs, sceneTokens, controlled, worldActors,
                   normVars, packVars, matchVars, pc, cacheVars, settingsVars,
                   variationVars>>

\* a cancellation after which the lock is held
CancelHoldsLock(c) ==
    /\ pc = "session"
    /\ calls[c].pc = "confirm"
    /\ isProcessing' = TRUE
    /\ calls' = [calls EXCEPT ![c].pc = "cancelled"]
    /\ UNCHANGED <<tokenDocs, sceneTokens, controlled, worldActors,
                   normVars, packVars, matchVars, pc, cacheVars,
                   settingsVars, variationVars>>

\* the user answers the dialog with "Cancel" or closes it
Cancel(c) ==
    /\ pc = "session"
    /\ calls[c].pc = "confirm"
    /\ calls' = [calls EXCEPT ![c].pc = "cancelled"]
    /\ UNCHANGED <<tokenDocs, sceneTokens, controlled, worldActors,
                   isProcessing, normVars, packVars, matchVars, pc, cacheVars,
                   settingsVars, variationVars>>

\* a loop that ends at the first token whose status is "error"
afterResultStopsOnError(call, status, name) ==
    [call EXCEPT !.pc = "loop",
                 !.pos = IF status = "error" THEN Len(call.npcTokens) + 1
                         ELSE @ + 1,
                 !.tokenDoc = 0,
                 !.match = NoMatch,
                 !.newTokenData = NoTokenData,
                 !.results = Append(@, status),
                 !.replaced = IF status = "replaced" THEN @ + 1 ELSE @,
                 !.notFound = IF status = "not_found" THEN Append(@, name) ELSE @,
                 !.errors = IF status = "error" THEN Append(@, name) ELSE @]

\* the locals after #processToken returned with this status for a token of
\* this name: the locals of #processToken and replaceToken are gone, and
\* results holds the statuses returned so far
afterResult(call, status, name) ==
    [call EXCEPT !.pc = "loop",
                 !.pos = @ + 1,
                 !.results = Append(@, status),
                 !.tokenDoc = 0,
                 !.match = NoMatch,
                 !.newTokenData = NoTokenData,
                 !.replaced = IF status = "replaced" THEN @ + 1 ELSE @,
                 !.notFound = IF status = "not_found" THEN Append(@, name) ELSE @,
                 !.errors = IF status = "error" THEN Append(@, name) ELSE @]

\* a presence test that lets every token through
stillInSceneAlways(t, scene) == TRUE

\* canvas.scene.tokens.has(tokenDoc.id)
stillInScene(t, scene) == t \in scene

\* the loop takes the next token: #processToken up to its await, that is
\* the two skip tests, findMatch and the first lines of replaceToken
ProcessToken(c) ==
    /\ pc = "session"
    /\ calls[c].pc = "loop"
    /\ calls[c].pos <= Len(calls[c].npcTokens)
    /\ LET t == calls[c].npcTokens[calls[c].pos]
           name == creatureNameOf(tokenDocs[t])
           found == findMatch(name, index)
       IN  calls' = [calls EXCEPT ![c] =
               IF t \in calls[c].processedIds \/ ~stillInScene(t, sceneTokens)
               THEN afterResult(@, "skipped", name)
               ELSE IF found.stage = "threw"
               THEN afterResult([@ EXCEPT !.processedIds = @ \cup {t}],
                                "error", name)
               ELSE IF found.match = NoMatch
               THEN afterResult([@ EXCEPT !.processedIds = @ \cup {t}],
                                "not_found", name)
               ELSE [@ EXCEPT !.processedIds = @ \cup {t},
                              !.pc = "import",
                              !.tokenDoc = t,
                              !.match = found.match]]
    /\ UNCHANGED <<tokenDocs, sceneTokens, controlled, worldActors,
                   isProcessing, normVars, packVars, matchVars, pc, cacheVars,
                   settingsVars, variationVars>>

\* replaceToken from pack.getDocument to the call of deleteEmbeddedDocuments:
\* the world actor is found or imported and the new token's data prepared,
\* or the import fails and #processToken catches the error
ImportActor(c) ==
    /\ pc = "session"
    /\ calls[c].pc = "import"
    /\ LET tokenDoc == tokenDocs[calls[c].tokenDoc]
           item == calls[c].match
       IN  \E imported \in BOOLEAN :
               IF imported
               THEN /\ worldActors' = actorsAfterImport(worldActors, item)
                    /\ calls' = [calls EXCEPT ![c] =
                           [@ EXCEPT !.pc = "delete",
                                     !.newTokenData =
                                         prepareNewTokenData(
                                             prototypeTokenOf(item.entry),
                                             extractTokenProperties(tokenDoc),
                                             worldActorIdOf(worldActors, item))]]
               ELSE /\ worldActors' = worldActors
                    /\ calls' = [calls EXCEPT ![c] =
                           afterResult(@, "error", creatureNameOf(tokenDoc))]
    /\ UNCHANGED <<tokenDocs, sceneTokens, controlled, isProcessing,
                   normVars, packVars, matchVars, pc, cacheVars, settingsVars,
                   variationVars>>

\* canvas.scene.deleteEmbeddedDocuments("Token", [tokenDoc.id]) is carried
\* out: the token leaves the scene and the selection; for a token that is on
\* the scene no more the host rejects the request
DeleteOld(c) ==
    /\ pc = "session"
    /\ calls[c].pc = "delete"
    /\ LET t == calls[c].tokenDoc
       IN  IF t \in sceneTokens
           THEN /\ sceneTokens' = sceneTokens \ {t}
                /\ controlled' = controlled \ {t}
                /\ calls' = [calls EXCEPT ![c] =
                       [@ EXCEPT !.pc = "create",
                                 !.requests = Append(@, <<"delete", t>>)]]
           ELSE /\ UNCHANGED <<sceneTokens, controlled>>
                /\ calls' = [calls EXCEPT ![c] =
                       afterResult([@ EXCEPT !.requests =
                                        Append(@, <<"delete", t>>)],
                                   "error", creatureNameOf(tokenDocs[t]))]
    /\ UNCHANGED <<tokenDocs, worldActors, isProcessing, normVars, packVars,
                   matchVars, pc, cacheVars, settingsVars, variationVars>>

\* canvas.scene.createEmbeddedDocuments("Token", [newTokenData]) is carried
\* out and #processToken returns "replaced", or no token comes back and it
\* returns "error"
CreateNew(c) ==
    /\ pc = "session"
    /\ calls[c].pc = "create"
    /\ LET name == creatureNameOf(tokenDocs[calls[c].tokenDoc])
           id == Len(tokenDocs) + 1
           requested == [calls[c] EXCEPT !.requests =
                            Append(@, <<"create", calls[c].tokenDoc>>)]
       IN  \E created \in BOOLEAN :
               IF created
               THEN /\ tokenDocs' = Append(tokenDocs,
                           CreatedToken(id, calls[c].newTokenData,
                                        calls[c].match.entry.name))
                    /\ sceneTokens' = sceneTokens \cup {id}
                    /\ calls' = [calls EXCEPT ![c] =
                           afterResult(requested, "replaced", name)]
               ELSE /\ UNCHANGED <<tokenDocs, sceneTokens>>
                    /\ calls' = [calls EXCEPT ![c] =
                           afterResult(requested, "error", name)]
    /\ UNCHANGED <<controlled, worldActors, isProcessing, normVars, packVars,
                   matchVars, pc, cacheVars, settingsVars, variationVars>>

\* the loop is over: the results are reported and the finally block
\* releases the lock, also when #reportResults raises an error
Finish(c) ==
    /\ pc = "session"
    /\ calls[c].pc = "loop"
    /\ calls[c].pos > Len(calls[c].npcTokens)
    /\ isProcessing' = FALSE
    /\ \E reported \in BOOLEAN :
           calls' = [calls EXCEPT ![c].pc =
                        IF reported THEN "done" ELSE "reportThrew"]
    /\ UNCHANGED <<tokenDocs, sceneTokens, controlled, worldActors,
                   normVars, packVars, matchVars, pc, cacheVars, settingsVars,
                   variationVars>>

NextSession ==
    \E c \in 1..MaxCalls :
        \/ Invoke(c)
        \/ Reject(c)
        \/ IndexLoaded(c)
        \/ Confirm(c)
        \/ Cancel(c)
        \/ ProcessToken(c)
        \/ ImportActor(c)
        \/ DeleteOld(c)
        \/ CreateNew(c)
        \/ Finish(c)

SpecSession == InitSession /\ [][NextSession]_vars

-----------------------------------------------------------------------------
(* Specification SpecReplace: one invocation of replaceNPCTokens by itself *)

NextReplace ==
    \/ Invoke(1)
    \/ Reject(1)
    \/ IndexLoaded(1)
    \/ Confirm(1)
    \/ Cancel(1)
    \/ ProcessToken(1)
    \/ ImportActor(1)
    \/ DeleteOld(1)
    \/ CreateNew(1)
    \/ Finish(1)

SpecReplace == InitSession /\ [][NextReplace]_vars

-----------------------------------------------------------------------------
(* Specification SpecInterfere: one invocation of replaceNPCTokens while    *)
(* tokens are deleted from the scene by somebody else                       *)

\* another user, or the GM by hand, deletes a token of the scene
RemoveToken ==
    /\ pc = "session"
    /\ \E t \in sceneTokens :
           /\ sceneTokens' = sceneTokens \ {t}
           /\ controlled' = controlled \ {t}
    /\ UNCHANGED <<tokenDocs, worldActors, isProcessing, calls, normVars,
                   packVars, matchVars, pc, cacheVars, settingsVars,
                   variationVars>>

NextInterfere ==
    \/ NextReplace
    \/ RemoveToken

SpecInterfere == InitSession /\ [][NextInterfere]_vars

-----------------------------------------------------------------------------
(* Specification SpecRetry: invocations of replaceNPCTokens one after the   *)
(* other, each made when the one before has returned                        *)

\* the positions of an invocation that has returned or ended with an error
Ended ==
    {"ignored", "rejected", "nothing", "cancelled", "threw", "done",
     "reportThrew"}

\* the invocations before this one have ended
AfterOthers(c) == \A b \in 1..(c - 1) : calls[b].pc \in Ended

\* no token is selected and no actor has been imported yet
InitRetry ==
    /\ InitSession
    /\ controlled = {}
    /\ worldActors = <<>>

\* replaceNPCTokens() is called when the calls before it have ended
InvokeAgain(c) == AfterOthers(c) /\ Invoke(c)

\* the same call when a prerequisite fails or the lock is held
RejectAgain(c) == AfterOthers(c) /\ Reject(c)

NextRetry ==
    \E c \in 1..MaxCalls :
        \/ InvokeAgain(c)
        \/ RejectAgain(c)
        \/ IndexLoaded(c)
        \/ Confirm(c)
        \/ Cancel(c)
        \/ ProcessToken(c)
        \/ ImportActor(c)
        \/ DeleteOld(c)
        \/ CreateNew(c)
        \/ Finish(c)

SpecRetry == InitRetry /\ [][NextRetry]_vars

-----------------------------------------------------------------------------
(* Specification SpecCache: the index cache under the ready hook's          *)
(* pre-caching, a replacement session and saves of the compendium           *)
(* selection.  An action is the code between two awaits.                    *)

\* the two callers of loadMonsterIndex: NPCTokenReplacerController.initialize
\* of the ready hook and an invocation of replaceNPCTokens
Loaders == {"initialize", "replaceNPCTokens"}

\* pack.index.contents once pack.getIndex has resolved
packIndexContents(pack) ==
    CASE pack.collection = "dnd-monster-manual.actors" ->
             <<[_id |-> 1, name |-> "Goblin"]>>
      [] pack.collection = "dnd-phandelver-below.actors" ->
             <<[_id |-> 2, name |-> "Goblin"]>>
      [] OTHER -> <<[_id |-> 3, name |-> "Rat"]>>

\* pack.index.contents.map(entry => ({ entry, pack }))
packEntries(pack) ==
    LET contents == packIndexContents(pack)
    IN  [i \in 1..Len(contents) |-> [entry |-> contents[i], pack |-> pack]]

\* [...enabledPacks].sort by descending priority
sortedPacks(enabledPacks) ==
    LET sorted == sortByPriority([i \in 1..Len(enabledPacks) |->
                                     [pack |-> enabledPacks[i]]])
    IN  [i \in 1..Len(sorted) |-> sorted[i].pack]

\* what detectWOTCCompendiums() returns with this cache
detectedWith(cache) ==
    IF cache # <<>> THEN cache[1] ELSE detectWOTCCompendiums(gamePacks)

\* the locals of a caller that has not called yet
NotLoading ==
    [pc |-> "idle", toFetch |-> <<>>, combinedIndex |-> <<>>, index |-> <<>>]

\* loadMonsterIndex() up to its first await or, with a cached index or no
\* enabled pack, to its return
loadMonsterIndexBegin ==
    LET enabledPacks == getEnabledCompendiums(
                            detectedWith(wotcCompendiumsCache),
                            enabledCompendiums)
    IN  IF indexCache # <<>>
        THEN [NotLoading EXCEPT !.pc = "loaded", !.index = indexCache[1]]
        ELSE IF Len(enabledPacks) = 0
        THEN [NotLoading EXCEPT !.pc = "loaded"]
        ELSE [NotLoading EXCEPT !.pc = "fetching",
                                !.toFetch = sortedPacks(enabledPacks)]

\* the array _updateObject saves for the form's mode and checked boxes
enabledArrayOf(mode, checked, allPacks) ==
    IF mode = "default" THEN <<"default">>
    ELSE IF mode = "all" THEN <<"all">>
    ELSE LET boxes == ascending({i \in checked : i <= Len(allPacks)})
         IN  [k \in 1..Len(boxes) |-> allPacks[boxes[k]].collection]

\* _updateObject is not running
NotSaving == [pc |-> "idle", enabledArray |-> <<>>]

InitCache ==
    /\ enabledCompendiums \in {<<"default">>, <<"all">>}
    /\ indexCache = <<>>
    /\ loaders = [l \in Loaders |-> NotLoading]
    /\ updateObject = NotSaving
    /\ gamePacks = MatchGamePacks
    /\ PacksIdle
    /\ index = <<>>
    /\ MatchIdle
    /\ NormIdle
    /\ SessionIdle
    /\ SettingsIdle
    /\ VariationIdle
    /\ pc = "cache"

\* the ready hook: initialize() detects the packs and starts to pre-cache
\* the index
Initialize ==
    /\ pc = "cache"
    /\ loaders["initialize"].pc = "idle"
    /\ wotcCompendiumsCache' = <<detectedWith(wotcCompendiumsCache)>>
    /\ loaders' = [loaders EXCEPT !["initialize"] =
                      IF Len(detectedWith(wotcCompendiumsCache)) = 0
                      THEN [@ EXCEPT !.pc = "done"]
                      ELSE loadMonsterIndexBegin]
    /\ UNCHANGED <<enabledCompendiums, indexCache, updateObject, gamePacks,
                   packArg, priority, normVars, matchVars, sessionVars, pc,
                   settingsVars, variationVars>>

\* replaceNPCTokens() is called: lock, prerequisites and enabled packs are
\* tested and loadMonsterIndex is called
InvokeSession ==
    /\ pc = "cache"
    /\ loaders["replaceNPCTokens"].pc = "idle"
    /\ wotcCompendiumsCache' =
           IF isProcessing THEN wotcCompendiumsCache
           ELSE <<detectedWith(wotcCompendiumsCache)>>
    /\ loaders' = [loaders EXCEPT !["replaceNPCTokens"] =
                      IF \/ isProcessing
                         \/ Len(detectedWith(wotcCompendiumsCache)) = 0
                         \/ Len(getEnabledCompendiums(
                                    detectedWith(wotcCompendiumsCache),
                                    enabledCompendiums)) = 0
                      THEN [@ EXCEPT !.pc = "done"]
                      ELSE loadMonsterIndexBegin]
    /\ UNCHANGED <<enabledCompendiums, indexCache, updateObject, gamePacks,
                   packArg, priority, normVars, matchVars, sessionVars, pc,
                   settingsVars, variationVars>>

\* pack.getIndex has resolved for the next pack of the loop: its entries are
\* pushed, and after the last pack the combined index is cached and returned
FetchPackIndex(l) ==
    /\ pc = "cache"
    /\ loaders[l].pc = "fetching"
    /\ LET combined == loaders[l].combinedIndex
                           \o packEntries(Head(loaders[l].toFetch))
           rest == Tail(loaders[l].toFetch)
       IN  IF Len(rest) = 0
           THEN /\ indexCache' = <<combined>>
                /\ loaders' = [loaders EXCEPT ![l] =
                       [NotLoading EXCEPT !.pc = "loaded", !.index = combined]]
           ELSE /\ indexCache' = indexCache
                /\ loaders' = [loaders EXCEPT ![l] =
                       [@ EXCEPT !.toFetch = rest, !.combinedIndex = combined]]
    /\ UNCHANGED <<enabledCompendiums, updateObject, packVars, normVars,
                   matchVars, sessionVars, pc, settingsVars, variationVars>>

\* replaceNPCTokens after loadMonsterIndex: with entries in the index and
\* NPC tokens on the scene the confirmation dialog is shown
ShowConfirmation ==
    /\ pc = "cache"
    /\ loaders["replaceNPCTokens"].pc = "loaded"
    /\ loaders' = [loaders EXCEPT !["replaceNPCTokens"].pc =
                      IF Len(loaders["replaceNPCTokens"].index) = 0
                      THEN "done" ELSE "confirm"]
    /\ UNCHANGED <<enabledCompendiums, indexCache, updateObject, packVars,
                   normVars, matchVars, sessionVars, pc, settingsVars,
                   variationVars>>

\* the dialog is confirmed and #processToken calls findMatch for a token
\* with the index the invocation holds
MatchToken ==
    /\ pc = "cache"
    /\ loaders["replaceNPCTokens"].pc = "confirm"
    /\ \E name \in SessionNames :
           LET r == findMatch(name, loaders["replaceNPCTokens"].index)
           IN  /\ creatureName' = name
               /\ match' = r.match
               /\ matchStage' = r.stage
               /\ stagesRun' = r.stagesRun
               /\ candidates' = r.matches
               /\ index' = r.index
    /\ loaders' = [loaders EXCEPT !["replaceNPCTokens"].pc = "done"]
    /\ UNCHANGED <<enabledCompendiums, indexCache, updateObject, packVars,
                   normVars, sessionVars, pc, settingsVars, variationVars>>

\* the selection form is submitted: _updateObject up to its await of
\* game.settings.set
UpdateObject ==
    /\ pc = "cache"
    /\ updateObject.pc = "idle"
    /\ wotcCompendiumsCache' = <<detectedWith(wotcCompendiumsCache)>>
    /\ \E mode \in {"default", "all", "custom"} :
       \E checked \in SUBSET (1..Len(detectedWith(wotcCompendiumsCache))) :
           /\ mode # "custom" => checked = {}
           /\ updateObject' =
                  [pc |-> "saving",
                   enabledArray |->
                       enabledArrayOf(mode, checked,
                                      detectedWith(wotcCompendiumsCache))]
    /\ UNCHANGED <<enabledCompendiums, indexCache, loaders, gamePacks,
                   packArg, priority, normVars, matchVars, sessionVars, pc,
                   settingsVars, variationVars>>

\* game.settings.set has resolved: the setting holds the new array, and
\* clearCache() drops the cached index and the detected packs
SettingsSaved ==
    /\ pc = "cache"
    /\ updateObject.pc = "saving"
    /\ enabledCompendiums' = updateObject.enabledArray
    /\ indexCache' = <<>>
    /\ wotcCompendiumsCache' = <<>>
    /\ updateObject' = NotSaving
    /\ UNCHANGED <<loaders, gamePacks, packArg, priority, normVars,
                   matchVars, sessionVars, pc, settingsVars, variationVars>>

NextCache ==
    \/ Initialize
    \/ InvokeSession
    \/ \E l \in Loaders : FetchPackIndex(l)
    \/ ShowConfirmation
    \/ MatchToken
    \/ UpdateObject
    \/ SettingsSaved

SpecCache == InitCache /\ [][NextCache]_vars

-----------------------------------------------------------------------------
(* Specification SpecSettings: the stored compendium selection, read by     *)
(* getEnabledCompendiums and getData and written by the selection form      *)

\* the modules of the packs of the host
SettingsPackages ==
    {"dnd5e", "dnd-monster-manual", "dnd-forge-artificer",
     "dnd-phandelver-below", "dnd-new-adventure", "dnd5e-animations", "world"}

\* lists of collection ids a custom selection can hold
CustomLists ==
    {<<"dnd-phandelver-below.actors">>,
     <<"dnd5e.actors", "dnd-new-adventure.actors">>,
     <<"world.actors">>}

\* values of the setting that select the default: the registered default,
\* an empty array, a value that is no string, a text that is no array and
\* a text JSON.parse rejects
DefaultSettings ==
    {"[\"default\"]", "[]", null, "null", "5", "{}", "", "[\"default\"",
     "default"}

StoredSettings ==
    DefaultSettings \cup {"[\"all\"]"} \cup {stringify(l) : l \in CustomLists}

InitSettings ==
    /\ settingJSON \in StoredSettings
    /\ formData = [mode |-> "default", checked |-> {}]
    /\ formMode = ""
    /\ enabledResult = <<>>
    /\ gamePacks \in {a \in Arrangements(
                          {Pack(p, "actors", "Actor") : p \in SettingsPackages},
                          MaxPacks) : Distinct(a)}
    /\ PacksIdle
    /\ NormIdle
    /\ index = <<>>
    /\ MatchIdle
    /\ SessionIdle
    /\ CacheIdle
    /\ VariationIdle
    /\ pc = "settings"

\* CompendiumManager.getEnabledCompendiums()
GetEnabledCompendiums ==
    /\ pc \in {"settings", "shown"}
    /\ wotcCompendiumsCache' = <<detectedWith(wotcCompendiumsCache)>>
    /\ enabledResult' = getEnabledCompendiumsOf(
                            detectedWith(wotcCompendiumsCache), settingJSON)
    /\ pc' = "enabled"
    /\ UNCHANGED <<settingJSON, formData, formMode, gamePacks, packArg,
                   priority, normVars, matchVars, sessionVars, cacheVars,
                   variationVars>>

\* the selection form is opened: CompendiumSelectorForm.getData()
GetData ==
    /\ pc \in {"settings", "enabled"}
    /\ wotcCompendiumsCache' = <<detectedWith(wotcCompendiumsCache)>>
    /\ formMode' = getDataMode(settingJSON)
    /\ pc' = "shown"
    /\ UNCHANGED <<settingJSON, formData, enabledResult, gamePacks, packArg,
                   priority, normVars, matchVars, sessionVars, cacheVars,
                   variationVars>>

\* the form is submitted and read back: _updateObject stores the selection
\* and clears the caches, then getData and getEnabledCompendiums run
SubmitForm ==
    /\ pc = "shown"
    /\ \E mode \in {"default", "all", "custom"} :
       \E checked \in SUBSET (1..Len(detectedWith(wotcCompendiumsCache))) :
           LET allPacks == detectedWith(wotcCompendiumsCache)
               jsonValue == stringify(enabledArrayOf(mode, checked, allPacks))
           IN  /\ formData' = [mode |-> mode, checked |-> checked]
               /\ settingJSON' = jsonValue
               /\ formMode' = getDataMode(jsonValue)
               /\ enabledResult' =
                      getEnabledCompendiumsOf(detectWOTCCompendiums(gamePacks),
                                              jsonValue)
    /\ wotcCompendiumsCache' = <<detectWOTCCompendiums(gamePacks)>>
    /\ pc' = "saved"
    /\ UNCHANGED <<gamePacks, packArg, priority, normVars, matchVars,
                   sessionVars, cacheVars, variationVars>>

\* the form is closed
CloseForm ==
    /\ pc = "saved"
    /\ pc' = "settings"
    /\ UNCHANGED <<packVars, normVars, matchVars, sessionVars, cacheVars,
                   settingsVars, variationVars>>

NextSettings ==
    \/ GetEnabledCompendiums
    \/ GetData
    \/ SubmitForm
    \/ CloseForm

SpecSettings == InitSettings /\ [][NextSettings]_vars

-----------------------------------------------------------------------------
(* Specification SpecVariation: the textures of the tokens replaced one     *)
(* after the other in a session, for creatures with wildcard token paths    *)

\* the compendium actors whose prototype token has a wildcard texture
WildcardCreatures == {"Goblin", "Specter"}

\* a compendium actor whose prototype token has a plain texture
PlainCreatures == {"Bandit"}

\* the files found for a wildcard path, in the order they are probed
VariantsOf(creature, n) == [i \in 1..n |-> VariantPath(creature, i)]

\* compendiumActor.img, the fallback of resolve
PortraitOf(creature) == [src |-> creature, variant |-> 0]

InitVariation ==
    /\ sequentialCounter = 0
    /\ tokenVariationMode \in {"none", "sequential", "random"}
    /\ availableVariants \in
           {[c \in WildcardCreatures |-> VariantsOf(c, n[c])] :
               n \in [WildcardCreatures -> 0..MaxVariants]}
    /\ resolvedPaths = <<>>
    /\ gamePacks = MatchGamePacks
    /\ PacksIdle
    /\ NormIdle
    /\ index = <<>>
    /\ MatchIdle
    /\ SessionIdle
    /\ CacheIdle
    /\ SettingsIdle
    /\ pc = "variation"

\* a session starts: TokenReplacer.resetCounter()
ResetCounter ==
    /\ pc = "variation"
    /\ sequentialCounter' = 0
    /\ resolvedPaths' = <<>>
    /\ UNCHANGED <<tokenVariationMode, availableVariants, packVars, normVars,
                   index, matchVars, sessionVars, cacheVars, settingsVars, pc>>

\* replaceToken for a token matched with a creature of a wildcard texture:
\* #resolveWildcardTexture picks the file and moves the counter
ResolveWildcardTexture ==
    /\ pc = "variation"
    /\ Len(resolvedPaths) < MaxReplaced
    /\ \E creature \in WildcardCreatures :
       \E randomIndex \in 0..(MaxVariants - 1) :
           LET variants == availableVariants[creature]
               currentIndex == sequentialCounter
               result == resolve(variants, tokenVariationMode, currentIndex,
                                 PortraitOf(creature), randomIndex)
           IN  /\ IF tokenVariationMode = "random" /\ Len(variants) > 0
                  THEN randomIndex < Len(variants)
                  ELSE randomIndex = 0
               /\ sequentialCounter' =
                      counterAfterResolve(tokenVariationMode, currentIndex,
                                          result)
               /\ resolvedPaths' =
                      Append(resolvedPaths,
                             [creature |-> creature,
                              src |-> result.resolvedPath])
    /\ UNCHANGED <<tokenVariationMode, availableVariants, packVars, normVars,
                   index, matchVars, sessionVars, cacheVars, settingsVars, pc>>

\* replaceToken for a token matched with a creature of a plain texture:
\* isWildcardPath is false and the texture is taken as it is
ReplacePlain ==
    /\ pc = "variation"
    /\ Len(resolvedPaths) < MaxReplaced
    /\ \E creature \in PlainCreatures :
           resolvedPaths' = Append(resolvedPaths,
                                   [creature |-> creature,
                                    src |-> PortraitOf(creature)])
    /\ UNCHANGED <<sequentialCounter, tokenVariationMode, availableVariants,
                   packVars, normVars, index, matchVars, sessionVars,
                   cacheVars, settingsVars, pc>>

NextVariation ==
    \/ ResetCounter
    \/ ResolveWildcardTexture
    \/ ReplacePlain

SpecVariation == InitVariation /\ [][NextVariation]_vars

-----------------------------------------------------------------------------
(* Properties of findMatch, checked in SpecMatch *)

\* the normalized creature name of the call under way
Searched == normalizeNameOf(creatureName)

\* the normalized name of the index entry at position j
EntryNameAt(j) == normalizeNameOf(index[j].entry.name)

\* the positions of the index whose items are in the local array `matches`
CandidatePositions ==
    {j \in 1..Len(index) : \E i \in 1..Len(candidates) : candidates[i] = index[j]}

PriorityAt(j) == getCompendiumPriority(index[j].pack)

\* the results of the three variant transforms, in the order (a), (b), (c)
StrippedNames ==
    <<replacePrefix(Searched), replaceSuffix(Searched),
      replaceSuffix(replacePrefix(Searched))>>

\* transform k gives a name to look up, and some entry has that name
VariantHits(k) ==
    /\ StrippedNames[k] # Searched
    /\ StrippedNames[k] # ""
    /\ \E j \in 1..Len(index) : EntryNameAt(j) = StrippedNames[k]

\* C1: in whatever stage findMatch decides (exact, variant or partial), when
\* the stage's filter yields more than one candidate the returned item is one
\* of them and no candidate of that stage has a strictly higher priority
C1_ReturnsMaxPriority ==
    (pc = "matched" /\ Len(candidates) > 1) =>
        /\ \E i \in 1..Len(candidates) : candidates[i] = match
        /\ \A i \in 1..Len(candidates) :
               getCompendiumPriority(candidates[i].pack)
                   <= getCompendiumPriority(match.pack)

\* "Goblin Warrior", "Goblin" first in a priority-2 and then in a priority-4
\* source: the suffix-strip stage returns the priority-4 one
C1_Witness ==
    /\ pc = "matched"
    /\ creatureName = "Goblin Warrior"
    /\ matchStage = "suffix"
    /\ Len(index) = 2
    /\ Len(candidates) = 2
    /\ PriorityAt(1) = 2
    /\ PriorityAt(2) = 4
    /\ match = index[2]

\* C2: when the normalized creature name is not empty and some entry's
\* normalized name equals it, findMatch returns at Stage 1 an entry of that
\* normalized name, whatever later stages could have found
C2_ExactNeverSkipped ==
    (/\ pc = "matched"
     /\ Searched # ""
     /\ \E j \in 1..Len(index) : EntryNameAt(j) = Searched)
    => /\ matchStage = "exact"
       /\ match # NoMatch
       /\ normalizeNameOf(match.entry.name) = Searched

\* "Goblin Chief" is in a priority-2 source and its suffix-stripped "Goblin"
\* in a priority-4 source: the exact entry is returned
C2_Witness ==
    /\ pc = "matched"
    /\ creatureName = "Goblin Chief"
    /\ Len(index) = 2
    /\ index[1].entry.name = "Goblin"
    /\ PriorityAt(1) = 4
    /\ index[2].entry.name = "Goblin Chief"
    /\ PriorityAt(2) = 2
    /\ match = index[2]
    /\ matchStage = "exact"

\* C3: when Stage 1 finds nothing, the first of the transforms (a) prefix,
\* (b) suffix, (c) both whose result differs from the input, is not empty and
\* is the normalized name of some entry decides: the returned entry has that
\* result as its normalized name
C3_FirstVariantDecides ==
    (/\ pc = "matched"
     /\ Searched # ""
     /\ \A j \in 1..Len(index) : EntryNameAt(j) # Searched)
    => \A k \in 1..3 :
           (VariantHits(k) /\ \A h \in 1..(k - 1) : ~VariantHits(h))
           => /\ matchStage = <<"prefix", "suffix", "both">>[k]
              /\ match # NoMatch
              /\ normalizeNameOf(match.entry.name) = StrippedNames[k]

\* "Young Goblin Chief": the prefix-stripped "Goblin Chief" is in a priority-2
\* source and the suffix-stripped "Young Goblin" in a priority-4 source, and
\* the prefix transform decides
C3_Witness ==
    /\ pc = "matched"
    /\ creatureName = "Young Goblin Chief"
    /\ Len(index) = 2
    /\ index[1].entry.name = "Young Goblin"
    /\ PriorityAt(1) = 4
    /\ index[2].entry.name = "Goblin Chief"
    /\ PriorityAt(2) = 2
    /\ matchStage = "prefix"
    /\ match = index[2]

\* the whitespace-delimited words of s
WordsOf(s) ==
    {SubSeq(s, i, wordEnd(s, i)) :
        i \in {k \in 1..Len(s) :
                  /\ SubSeq(s, k, k) \notin WhiteSpace
                  /\ (k = 1 \/ SubSeq(s, k - 1, k - 1) \in WhiteSpace)}}

\* C4: when Stage 3 is evaluated, an entry is among its candidates exactly
\* when its normalized name has at least 4 characters and shares an identical
\* whole word of at least 4 characters with the normalized input
C4_PartialIsWordLevel ==
    (pc = "matched" /\ "partial" \in stagesRun) =>
        \A j \in 1..Len(index) :
            (j \in CandidatePositions) <=>
                /\ Len(EntryNameAt(j)) >= 4
                /\ \E w \in WordsOf(EntryNameAt(j)) \cap WordsOf(Searched) :
                       Len(w) >= 4

\* "Goblin Boss" against "Hobgoblin" and "Goblin Chief": only the entry with
\* the whole word "goblin" is a candidate
C4_Witness ==
    /\ pc = "matched"
    /\ creatureName = "Goblin Boss"
    /\ matchStage = "partial"
    /\ Len(index) = 2
    /\ index[1].entry.name = "Hobgoblin"
    /\ index[2].entry.name = "Goblin Chief"
    /\ CandidatePositions = {2}
    /\ match = index[2]

\* C5: a creature name whose normalized form has fewer than 4 characters
\* never has Stage 3 evaluated, and when neither Stage 1 nor a variant of
\* Stage 2 has a candidate the result is "no match"
C5_MinimumLengthGate ==
    (pc = "matched" /\ Len(Searched) < 4) =>
        /\ "partial" \notin stagesRun
        /\ matchStage # "partial"
        /\ ((/\ \A j \in 1..Len(index) : EntryNameAt(j) # Searched
             /\ \A k \in 1..3 : ~VariantHits(k))
            => match = NoMatch)

\* "Rat" against an index that holds "Pirate": Stages 1 and 2 find nothing
\* and Stage 3 is not evaluated
C5_Witness ==
    /\ pc = "matched"
    /\ creatureName = "Rat"
    /\ \E j \in 1..Len(index) : index[j].entry.name = "Pirate"
    /\ stagesRun = {"exact"}
    /\ matchStage = "none"
    /\ match = NoMatch

\* the greatest priority among the candidates of the deciding stage
TopPriority ==
    CHOOSE p \in {PriorityAt(j) : j \in CandidatePositions} :
        \A j \in CandidatePositions : PriorityAt(j) <= p

\* C7: the returned item is, among the candidates of the deciding stage that
\* have the top priority, the one that comes first in the combined index
C7_FirstOfTopPriority ==
    (pc = "matched" /\ match # NoMatch) =>
        \E j \in CandidatePositions :
            /\ match = index[j]
            /\ PriorityAt(j) = TopPriority
            /\ \A h \in CandidatePositions :
                   PriorityAt(h) = TopPriority => j <= h

\* two entries named "Goblin" from two different priority-4 sources: the
\* first of the index is returned
C7_Witness ==
    /\ pc = "matched"
    /\ creatureName = "Goblin"
    /\ Len(index) = 2
    /\ CandidatePositions = {1, 2}
    /\ PriorityAt(1) = 4
    /\ PriorityAt(2) = 4
    /\ index[1].pack # index[2].pack
    /\ match = index[1]

\* C10: a creature name that is null, empty or empty after normalization
\* gives "no match" at once: no stage's filter is evaluated
C10_EmptyNameShortCircuits ==
    (/\ pc = "matched"
     /\ (creatureName = null \/ creatureName = ""
            \/ normalizeName(creatureName) = ""))
    => /\ match = NoMatch
       /\ matchStage = "empty"
       /\ stagesRun = {}

\* a whitespace-only name against an index that is not empty
C10_Witness ==
    /\ pc = "matched"
    /\ creatureName = " \t "
    /\ Len(index) > 0
    /\ match = NoMatch
    /\ matchStage = "empty"
    /\ stagesRun = {}

\* the canonical form the comparison is described by: lower-case, delete
\* what is neither a word character nor whitespace, collapse the runs of
\* whitespace, trim
Canonical(name) == trim(collapseSpace(removeSpecial(toLowerCase(name))))

\* C9: two names with the same canonical form have the same normalizeName
\* result, so that an entry of the one name is an exact (Stage 1) match for
\* the other
C9_InsensitiveComparison ==
    (pc = "matched" /\ creatureName # null) =>
        \A j \in 1..Len(index) :
            Canonical(creatureName) = Canonical(index[j].entry.name)
            => /\ normalizeName(creatureName)
                      = normalizeName(index[j].entry.name)
               /\ (Searched # "" => matchStage = "exact")

\* C11: for every creature name and every well-formed index findMatch
\* returns without an exception, and what it returns is null or one of the
\* items of the index
C11_ReturnsNullOrIndexItem ==
    pc = "matched" =>
        /\ matchStage # "threw"
        /\ (match = NoMatch \/ \E j \in 1..Len(index) : index[j] = match)

\* "Pirate Captain" against "Rat" and "Pirate": the item of the index at
\* position 2 is returned
C11_Witness ==
    /\ pc = "matched"
    /\ creatureName = "Pirate Captain"
    /\ Len(index) = 2
    /\ index[1].entry.name = "Rat"
    /\ index[2].entry.name = "Pirate"
    /\ matchStage = "suffix"
    /\ match = index[2]

\* an entry named entryName is a Stage 3 candidate for the input: the guard
\* of Stage 3 lets the input through and the filter keeps the entry
Stage3Candidate(input, entryName) ==
    LET normalizedSearch == normalizeNameOf(input)
    IN  /\ stage3Attempted(normalizedSearch)
        /\ Len(stage3Matches(<<IndexItem(1, entryName, NoPack)>>,
                             normalizedSearch)) > 0

\* C15: for the normalized input a and the normalized name b of an entry of
\* the index, both of at least 4 characters, an entry named b is a Stage 3
\* candidate for the input a exactly when an entry named a is one for the
\* input b; and when Stage 3 was evaluated its candidates are the entries
\* that this relation gives
C15_Stage3Symmetric ==
    pc = "matched" =>
        \A j \in 1..Len(index) :
            /\ (Len(Searched) >= 4 /\ Len(EntryNameAt(j)) >= 4)
               => (Stage3Candidate(Searched, EntryNameAt(j))
                      <=> Stage3Candidate(EntryNameAt(j), Searched))
            /\ "partial" \in stagesRun
               => ((j \in CandidatePositions)
                      <=> Stage3Candidate(creatureName, index[j].entry.name))

\* "Goblin Boss" against "Young Goblin": a Stage 3 candidate, and "Goblin
\* Boss" would be one for the input "Young Goblin"
C15_Witness ==
    /\ pc = "matched"
    /\ creatureName = "Goblin Boss"
    /\ Len(index) = 1
    /\ index[1].entry.name = "Young Goblin"
    /\ matchStage = "partial"
    /\ match = index[1]
    /\ Stage3Candidate("young goblin", "goblin boss")

\* C16: a call of findMatch leaves the caller's index as it was: the same
\* items in the same order
C16_IndexUnchanged ==
    [][(pc = "idle" /\ pc' = "matched") => index' = index]_vars

\* two "Goblin" entries, the priority-2 one first: the candidate list has
\* been sorted into the other order while the index still has its own
C16_Witness ==
    /\ pc = "matched"
    /\ creatureName = "Goblin"
    /\ Len(index) = 2
    /\ PriorityAt(1) = 2
    /\ PriorityAt(2) = 4
    /\ candidates = <<index[2], index[1]>>
    /\ index[1].entry._id = 1
    /\ index[2].entry._id = 2

-----------------------------------------------------------------------------
(* Properties of findMatch, checked in SpecReadme *)

\* the two names have a word in common once normalized
Related(a, b) ==
    WordsOf(normalizeNameOf(a)) \cap WordsOf(normalizeNameOf(b)) # {}

\* C14: for every row of the README's table, when the index holds an entry
\* of the row's compendium name and no other entry that is related to the
\* row's scene token, findMatch on the scene token returns an entry of that
\* name
C14_ReadmeExamples ==
    pc = "matched" =>
        \A r \in 1..Len(ReadmeExamples) :
            (/\ creatureName = ReadmeExamples[r][1]
             /\ \E j \in 1..Len(index) :
                    index[j].entry.name = ReadmeExamples[r][2]
             /\ \A j \in 1..Len(index) :
                    index[j].entry.name # ReadmeExamples[r][2]
                    => ~Related(creatureName, index[j].entry.name))
            => /\ match # NoMatch
               /\ match.entry.name = ReadmeExamples[r][2]

-----------------------------------------------------------------------------
(* Properties of normalizeName, checked in SpecNorm *)

\* C8: normalizeName is idempotent: applied to its own result it returns it
C8_Idempotent ==
    Len(normalized) = 2 => normalized[2] = normalized[1]

-----------------------------------------------------------------------------
(* Properties of getCompendiumPriority, checked in SpecPacks *)

\* the Priority column of the README's table of supported content
ReadmePriority ==
    [p \in {"dnd-phandelver-below", "dnd-tomb-annihilation",
            "dnd-adventures-faerun", "dnd-heroes-faerun",
            "dnd-heroes-borderlands"} |-> 4]
    @@ [p \in {"dnd-forge-artificer"} |-> 3]
    @@ [p \in {"dnd-monster-manual", "dnd-players-handbook",
               "dnd-dungeon-masters-guide"} |-> 2]
    @@ [p \in {"dnd-tashas-cauldron", "dnd5e"} |-> 1]

\* the tier of the table for a listed name, else 4 behind the official
\* prefix and 1 without it
PriorityReference(packageName) ==
    IF packageName \in DOMAIN ReadmePriority THEN ReadmePriority[packageName]
    ELSE IF startsWith(packageName, "dnd-") THEN 4
    ELSE 1

\* C6: getCompendiumPriority returns what the reference function gives for
\* the pack's packageName
C6_PriorityIsReference ==
    packArg # NoPack =>
        priority = PriorityReference(IF packArg.metadata.packageName = null
                                     THEN ""
                                     ELSE packArg.metadata.packageName)

\* C12: getCompendiumPriority returns one of 1, 2, 3, 4 for every pack,
\* whatever its packageName is
C12_PriorityInRange ==
    packArg # NoPack => priority \in 1..4

\* the pack is one that detectWOTCCompendiums has recognized as official
Recognized(pack) ==
    /\ wotcCompendiumsCache # <<>>
    /\ \E i \in 1..Len(wotcCompendiumsCache[1]) :
           wotcCompendiumsCache[1][i] = pack

\* C13: a pack that detectWOTCCompendiums recognizes and whose packageName is
\* not a key of COMPENDIUM_PRIORITIES has priority 4
C13_RecognizedUnlistedIsAdventure ==
    (/\ packArg # NoPack
     /\ Recognized(packArg)
     /\ packArg.metadata.packageName \notin DOMAIN COMPENDIUM_PRIORITIES)
    => priority = 4

-----------------------------------------------------------------------------
(* Properties of a replacement session, checked in SpecSession and          *)
(* SpecReplace                                                              *)

\* C17: at most one invocation of replaceNPCTokens is between setting the
\* lock and releasing it
C17_OneSessionAtATime ==
    Cardinality({c \in 1..MaxCalls : calls[c].pc \in Processing}) <= 1

\* the tokens that were on the scene when the session started and have been
\* deleted since
Deleted == {t \in 1..Len(tokenDocs) : t \notin sceneTokens}

\* C20: an invocation that found at least one token selected on the canvas
\* replaces no token outside that selection: every token it has taken up
\* and that has been deleted is one of the selected tokens
C20_SelectionMode ==
    \A c \in 1..MaxCalls :
        calls[c].selectedTokens # {} =>
            \A t \in calls[c].processedIds \cap Deleted :
                t \in calls[c].selectedTokens

\* the tokens createEmbeddedDocuments has made: their actor is a world actor
Created == {id \in 1..Len(tokenDocs) : tokenDocs[id].actorId # 0}

\* the data has the preserved properties of the token document
Preserves(data, tokenDoc) ==
    \A k \in PRESERVED_PROPERTIES : data[k] = tokenDoc[k]

\* C19: the data replaceToken prepares for the new token has the ten
\* preserved properties of the token it replaces, actorLink false and the
\* id of the world actor of the matched entry; and every token created has
\* the preserved properties of a deleted token, actorLink false and the id
\* of a world actor
C19_PropertiesPreserved ==
    /\ \A c \in 1..MaxCalls :
           calls[c].pc \in {"delete", "create"} =>
               /\ Preserves(calls[c].newTokenData, tokenDocs[calls[c].tokenDoc])
               /\ calls[c].newTokenData.actorLink = FALSE
               /\ calls[c].newTokenData.actorId
                      = worldActorIdOf(worldActors, calls[c].match)
    /\ \A id \in Created :
           /\ \E t \in Deleted : Preserves(tokenDocs[id], tokenDocs[t])
           /\ tokenDocs[id].actorLink = FALSE
           /\ \E a \in 1..Len(worldActors) :
                  worldActors[a].id = tokenDocs[id].actorId

\* token 1, whose properties are all 0 or false, has been replaced by token
\* 2, which has the compendium's name and texture and token 1's properties
C19_Witness ==
    /\ Len(tokenDocs) = 2
    /\ sceneTokens = {2}
    /\ tokenDocs[1].name = "Goblin Warrior"
    /\ tokenDocs[2].name = "Goblin"
    /\ tokenDocs[2].texture = "tokens/compendium.webp"
    /\ tokenDocs[2].x = 0
    /\ tokenDocs[2].width = 1
    /\ tokenDocs[2].hidden = FALSE
    /\ tokenDocs[2].alpha = 0
    /\ tokenDocs[2].actorLink = FALSE
    /\ tokenDocs[2].actorId = 1
    /\ calls[1].replaced = 1

-----------------------------------------------------------------------------
(* Properties of the index cache, checked in SpecCache *)

\* the packs that are enabled by the setting as it is stored
EnabledSources ==
    LET enabledPacks == getEnabledCompendiums(detectWOTCCompendiums(gamePacks),
                                              enabledCompendiums)
    IN  {enabledPacks[i] : i \in 1..Len(enabledPacks)}

\* the packs the entries of an index come from
SourcesOf(idx) == {idx[j].pack : j \in 1..Len(idx)}

\* C18: every matching call of a replacement session is made with an index
\* whose entries come from exactly the packs that the stored setting
\* enables, so that after a save no call uses an index of the selection
\* before it
C18_IndexReflectsEnabled ==
    [][(/\ loaders["replaceNPCTokens"].pc = "confirm"
        /\ loaders'["replaceNPCTokens"].pc = "done")
       => SourcesOf(index') = EnabledSources]_vars

-----------------------------------------------------------------------------
(* Properties of the compendium selection, checked in SpecSettings *)

\* the modules of the README's "Core + Fallback Only": SRD, Tasha's,
\* Monster Manual, PHB and DMG
CoreFallbackPackages ==
    {"dnd5e", "dnd-tashas-cauldron", "dnd-monster-manual",
     "dnd-players-handbook", "dnd-dungeon-masters-guide"}

\* the detected packs of the host
DetectedPacks ==
    LET allPacks == detectWOTCCompendiums(gamePacks)
    IN  {allPacks[i] : i \in 1..Len(allPacks)}

\* the packs getEnabledCompendiums returned
EnabledResult == {enabledResult[i] : i \in 1..Len(enabledResult)}

\* C21: with a setting that selects the default getEnabledCompendiums
\* returns exactly the detected packs of SRD, Tasha's, Monster Manual, PHB
\* and DMG, with ["all"] every detected pack, and with a custom list
\* exactly the detected packs whose collection id is listed
C21_DefaultIsCoreAndFallback ==
    pc = "enabled" =>
        /\ settingJSON \in DefaultSettings =>
               EnabledResult =
                   {pack \in DetectedPacks :
                        pack.metadata.packageName \in CoreFallbackPackages}
        /\ settingJSON = "[\"all\"]" => EnabledResult = DetectedPacks
        /\ \A l \in CustomLists :
               settingJSON = stringify(l) =>
                   EnabledResult =
                       {pack \in DetectedPacks :
                            \E i \in 1..Len(l) : l[i] = pack.collection}

\* the packs a submission selects
Selection(submitted) ==
    IF submitted.mode = "all" THEN DetectedPacks
    ELSE IF submitted.mode = "default"
    THEN {pack \in DetectedPacks : getCompendiumPriority(pack) <= 2}
    ELSE LET allPacks == detectWOTCCompendiums(gamePacks)
         IN  {allPacks[i] : i \in submitted.checked}

\* C29: after a submission is saved getData reports the submitted mode and
\* getEnabledCompendiums returns the packs of the submitted selection
C29_SettingsRoundTrip ==
    pc = "saved" =>
        /\ formMode = formData.mode
        /\ EnabledResult = Selection(formData)

-----------------------------------------------------------------------------
(* Properties of findMatch on defective entries, checked in SpecDefective *)

\* the name of an index item normalizes to the empty string
Defective(item) == normalizeNameOf(item.entry.name) = ""

\* C30: findMatch does not throw, and no entry whose name is null, empty
\* or normalizes to the empty string is among the matches of the stage
\* that returns or is the item returned
C30_DefectiveEntriesSkipped ==
    pc = "matched" =>
        /\ matchStage # "threw"
        /\ match # NoMatch => ~Defective(match)
        /\ \A i \in 1..Len(candidates) : ~Defective(candidates[i])

\* "Young -" normalizes to "young " and its first variant is the empty
\* string, which the nameless entry of the index normalizes to as well
C30_Witness ==
    /\ pc = "matched"
    /\ creatureName = "Young -"
    /\ variantTransforms(1, normalizeNameOf(creatureName)) = ""
    /\ Len(index) = 2
    /\ index[1].entry.name = null
    /\ index[2].entry.name = ""
    /\ match = NoMatch
    /\ matchStage = "none"

-----------------------------------------------------------------------------
(* Properties of the token variations, checked in SpecVariation *)

\* how many of the first p tokens replaced in the session are of the
\* creature of the p-th
RankOf(p) ==
    Cardinality({q \in 1..p :
                     resolvedPaths[q].creature = resolvedPaths[p].creature})

\* C22: in sequential mode the k-th replaced token of a creature with
\* n >= 1 variants gets variant ((k-1) mod n)+1, whatever other creatures
\* are replaced in the session
C22_SequentialCyclesPerCreature ==
    tokenVariationMode = "sequential" =>
        \A p \in 1..Len(resolvedPaths) :
            LET creature == resolvedPaths[p].creature
            IN  (creature \in WildcardCreatures
                 /\ Len(availableVariants[creature]) >= 1)
                => resolvedPaths[p].src =
                       availableVariants[creature]
                           [((RankOf(p) - 1) % Len(availableVariants[creature]))
                            + 1]

-----------------------------------------------------------------------------
(* Properties of a replacement session, checked in SpecReplace,             *)
(* SpecInterfere and SpecRetry                                              *)

\* C23: the lock is held only while an invocation is between setting it
\* and its finally block: it never stays true with no session running
C23_LockReleased ==
    isProcessing => \E c \in 1..MaxCalls : calls[c].pc \in Processing

\* the positions of an invocation that ends before it takes the lock
EarlyExit == {"ignored", "rejected", "nothing", "cancelled"}

\* an invocation moves on its way to the lock or to an early exit
BeforeLock(c) ==
    /\ calls'[c] # calls[c]
    /\ calls'[c].pc \in EarlyExit \cup {"loadIndex", "confirm"}

\* C24: a step of an invocation before the lock, the cancellation and every
\* early exit included, changes neither the scene nor the world actors nor
\* the lock; a cancelled invocation has issued no request and leaves the
\* lock false, and the invocation made after it is not turned away
C24_CancelIsFreeOfEffects ==
    [][\A c \in 1..MaxCalls :
           /\ BeforeLock(c) =>
                  /\ UNCHANGED <<tokenDocs, sceneTokens, controlled,
                                 worldActors, isProcessing>>
                  /\ calls'[c].requests = <<>>
           /\ calls'[c].pc = "cancelled" =>
                  /\ (calls[c].pc = "confirm" => ~isProcessing')
                  /\ c < MaxCalls => calls'[c + 1].pc # "ignored"]_vars

\* the first invocation is cancelled and the second has reached its dialog
C24_Witness ==
    /\ calls[1].pc = "cancelled"
    /\ calls[2].pc = "confirm"
    /\ Len(calls[2].npcTokens) > 0
    /\ sceneTokens = 1..Len(tokenDocs)
    /\ ~isProcessing

\* the outcomes of #processToken
Outcomes == {"replaced", "not_found", "error", "skipped"}

\* how many of the tokens processed so far ended with this status
CountOf(call, status) ==
    Cardinality({i \in 1..Len(call.results) : call.results[i] = status})

RequestsFor(call, kind, t) ==
    {k \in 1..Len(call.requests) : call.requests[k] = <<kind, t>>}

SourceOf(actor) ==
    IF actor.compendiumSource # NoUuid THEN actor.compendiumSource
    ELSE actor.sourceId

\* C27: no two world actors have the same name and the same compendium
\* source, so that an entry is imported at most once, and the actor a new
\* token is given is one of the entry's name and source
C27_ImportsReused ==
    /\ \A i, j \in 1..Len(worldActors) :
           (/\ i # j
            /\ worldActors[i].name = worldActors[j].name)
           => SourceOf(worldActors[i]) # SourceOf(worldActors[j])
    /\ \A c \in 1..MaxCalls :
           calls[c].newTokenData # NoTokenData =>
               LET actor == worldActors[calls[c].newTokenData.actorId]
               IN  /\ actor.name = calls[c].match.entry.name
                   /\ SourceOf(actor) = <<calls[c].match.pack.collection,
                                          calls[c].match.entry._id>>

\* two tokens were replaced by the same entry and one actor was imported
C27_Witness ==
    /\ calls[1].pc = "done"
    /\ calls[1].replaced = 2
    /\ Len(worldActors) = 1
    /\ worldActors[1].compendiumSource # NoUuid

\* C28: a token whose processing ended with status "error" is still on the
\* scene
C28_TokenNeverLost ==
    \A c \in 1..MaxCalls :
        \A i \in 1..Len(calls[c].results) :
            calls[c].results[i] = "error" =>
                calls[c].npcTokens[i] \in sceneTokens

====
